---- MODULE Spec2Model ----
(***************************************************************************)
(* Cross-window shared state of tauri-mw-store: one StoreManager per       *)
(* window, the update / sync-request / sync-response events between the    *)
(* windows, the PersistentAdapter over the shared plugin store and the     *)
(* close-time flush.  Every window runs one cooperative event loop: an     *)
(* action is the code that runs between two suspension points (await).     *)
(***************************************************************************)
EXTENDS Integers, Sequences, FiniteSets, TLC

\* ------------------------------------------------------------------ bounds
MaxSets == 2        \* set() calls in a run of the running windows
MaxLifeSets == 1    \* set() calls in a run from start to close
MaxPullSets == 1    \* set() calls in a run with pull synchronisation
MaxSyncs == 1       \* requestSync() calls in one run
MaxDefines == 2     \* defineStore() calls per window
MaxErrors == 2      \* errors raised in one window
MaxListeners == 2   \* callbacks subscribed to one key of one window
MaxMounts == 1      \* hooks mounted on one key of one window
MaxMatchSyncs == 2  \* requestSync() calls in a run of two pulling windows
MaxSubscriptions == 3     \* addListener calls of one window
MaxUnsubscribeCalls == 2  \* calls of one unsubscribe function
MaxAdapterCalls == 3   \* adapter calls of one window in a run of accessor calls

\* ------------------------------------------------------------------ domains
Windows == {"main", "A", "B"}
Keys == {"x", "y"}
StoredKeys == Keys \cup {"old"}      \* "old": a key of an earlier schema
Nil == "nil"                         \* undefined / null / no entry
DefaultValue == "d"
SetValueSeq == <<"v1", "v2", "v3", "v4">>   \* the i-th set() call writes SetValueSeq[i]
SetValues == {SetValueSeq[i] : i \in DOMAIN SetValueSeq}
Values == {DefaultValue, "p"} \cup SetValues   \* "p": persisted by an earlier run

UpdateEvent == "store-update"
SyncRequestEvent == "store-sync-request"
SyncResponseEvent == "store-sync-response"

\* emitToWindows: "all" or a list of window labels
TargetsAll == [all |-> TRUE, list |-> {}]
TargetsList(ws) == [all |-> FALSE, list |-> ws]
TargetChoices == {TargetsAll, TargetsList({"A"})}

\* StoreOptions as the callers pass them; a field that is not passed is absent
OptionsImmediateAndOnClose == [immediateKeys |-> {"x"}, onCloseKeys |-> {"y"}]
OptionsNoPersistence == [immediateKeys |-> {}, onCloseKeys |-> {}]
OptionsNoCleanup == [immediateKeys |-> {"y"}, onCloseKeys |-> {}, autoCleanup |-> FALSE]
OptionsOnCloseOnly == [onCloseKeys |-> {"y"}]
OptionsOnCloseBoth == [onCloseKeys |-> {"x", "y"}]
OptionChoices == {OptionsImmediateAndOnClose, OptionsNoPersistence, OptionsNoCleanup}
InitialStates == {[k \in Keys |-> DefaultValue], [k \in Keys |-> "v1"]}

NoTask == <<"none", 0, "", "">>

VARIABLES
  windowStoreManager,  \* [Windows -> BOOLEAN]: the module-level singleton is set
  state,               \* [Windows -> [Keys -> Values]]
  initialState,        \* [Windows -> [Keys -> Values]]
  immediateKeys,       \* [Windows -> SUBSET Keys]
  onCloseKeys,         \* [Windows -> SUBSET Keys]
  autoCleanup,         \* [Windows -> BOOLEAN]
  hydratePc,           \* [Windows -> position of the first defineStore call]
  orphans,             \* [Windows -> keys the running cleanup is about to delete]
  defineCalls,         \* [Windows -> number of defineStore calls made]
  constructions,       \* [Windows -> number of StoreManager objects constructed]
  listeners,           \* [Windows -> [event -> [pending, active]]]: listen() calls
  closeHooks,          \* [Windows -> number of onCloseRequested handlers]
  notifyLog,           \* [Windows -> sequence of <<key, value>>]: ListenerRegistry.notify calls
  net,                 \* events dispatched to a window and not yet handled
  sets,                \* sequence of the set() calls made, with their position
  saves,               \* persistentAdapter.save calls, with their position
  adapterStore,        \* [Windows -> BOOLEAN]: PersistentAdapter.store is set
  initPromise,         \* [Windows -> BOOLEAN]: PersistentAdapter.initPromise is set
  storeLoads,          \* [Windows -> number of Store.load calls]
  adapterCalls,        \* [Windows -> number of calls of persistentAdapter methods]
  disk,                \* [StoredKeys -> Values \cup {Nil}]: the entries of the shared store
  diskWriter,          \* [StoredKeys -> the save that wrote the entry last]
  reqs,                \* sequence of the requestSync() calls made, with their position
  winStatus,           \* [Windows -> "open" | "closing" | "closed"]
  registry,            \* [Windows -> [Keys -> sequence of "ok" | "throws"]]: the callbacks of
                       \* ListenerRegistry.listeners, in insertion order
  listenerCalls,       \* [Windows -> sequence of <<index, key, value>>]: callbacks invoked
  errors,              \* [Windows -> sequence of the errors raised, rejected and logged]
  schema,              \* [Windows -> [Keys -> conf]]: the schema given to createMWStore
  storeFault,          \* [Windows -> BOOLEAN]: Store.load rejects in this window
  unsubscribers        \* [Windows -> sequence of [key, callback, calls]]: the unsubscribe
                       \* functions addListener has returned, and how often each was called

managerVars == <<windowStoreManager, initialState, immediateKeys, onCloseKeys, autoCleanup>>
bootVars == <<hydratePc, orphans, defineCalls, constructions, listeners, closeHooks>>
adapterVars == <<adapterStore, initPromise, storeLoads, adapterCalls>>
diskVars == <<disk, diskWriter>>
inputVars == <<registry, schema, storeFault, unsubscribers>>
vars == <<managerVars, bootVars, adapterVars, diskVars, state, notifyLog, net, sets,
          saves, reqs, winStatus, inputVars, listenerCalls, errors>>

\* ------------------------------------------------------------------ helpers
Range(s) == {s[i] : i \in DOMAIN s}

NoListeners == [e \in {UpdateEvent, SyncRequestEvent} |-> [pending |-> 0, active |-> 0]]

\* ListenerRegistry.notify(key, value), called n times in a row
RECURSIVE NotifyTimes(_, _, _, _)
NotifyTimes(log, key, value, n) ==
  IF n = 0 THEN log ELSE NotifyTimes(Append(log, <<key, value>>), key, value, n - 1)

NotifyPrepending(w, key, value) == [notifyLog EXCEPT ![w] = <<<<key, value>>>> \o @]
Notify(w, key, value) == [notifyLog EXCEPT ![w] = Append(@, <<key, value>>)]

\* notify(key, value) throws: a callback registered for key throws, and forEach with it
NotifyThrows(w, key) == \E j \in DOMAIN registry[w][key] : registry[w][key][j] = "throws"

\* subscribe(key, callback) adds a callback to the Set of the key; kind says whether
\* the callback returns ("ok") or throws ("throws") when it is invoked
Subscribe(w, key, kind) ==
  /\ winStatus[w] # "closed"
  /\ Len(registry[w][key]) < MaxListeners
  /\ registry' = [registry EXCEPT ![w][key] = Append(@, kind)]
  /\ UNCHANGED <<schema, storeFault, unsubscribers, listenerCalls, errors, managerVars, bootVars,
                 adapterVars, diskVars, state, notifyLog, net, sets, saves, reqs, winStatus>>

\* callback functions that return
Callbacks == {"f", "g"}

\* Set.add(callback): a callback the Set holds stays where it is, a new one goes last
SetAddPushing(s, cb) == Append(s, cb)
SetAdd(s, cb) == IF cb \in Range(s) THEN s ELSE Append(s, cb)

\* Set.delete(callback) on the Set of the key, if there is one
SetDelete(s, cb) == SelectSeq(s, LAMBDA c : c # cb)

\* addListener(key, callback): the callback is added to the Set of the key, and a new
\* unsubscribe function is returned
AddListener(w, key, cb) ==
  /\ winStatus[w] # "closed"
  /\ Len(unsubscribers[w]) < MaxSubscriptions
  /\ registry' = [registry EXCEPT ![w][key] = SetAdd(@, cb)]
  /\ unsubscribers' = [unsubscribers EXCEPT ![w] =
                         Append(@, [key |-> key, callback |-> cb, calls |-> 0])]
  /\ UNCHANGED <<schema, storeFault, listenerCalls, errors, managerVars, bootVars,
                 adapterVars, diskVars, state, notifyLog, net, sets, saves, reqs, winStatus>>

\* the u-th unsubscribe function of window w is called: removeListener(key, callback)
Unsubscribe(w, u) ==
  /\ winStatus[w] # "closed"
  /\ u \in DOMAIN unsubscribers[w] /\ unsubscribers[w][u].calls < MaxUnsubscribeCalls
  /\ registry' = [registry EXCEPT ![w][unsubscribers[w][u].key] =
                    SetDelete(@, unsubscribers[w][u].callback)]
  /\ unsubscribers' = [unsubscribers EXCEPT ![w][u].calls = @ + 1]
  /\ UNCHANGED <<schema, storeFault, listenerCalls, errors, managerVars, bootVars,
                 adapterVars, diskVars, state, notifyLog, net, sets, saves, reqs, winStatus>>

\* the callbacks forEach invokes, in insertion order: all of them, or those up to the
\* first that throws
InvokedCount(w, key) ==
  IF NotifyThrows(w, key)
    THEN CHOOSE j \in DOMAIN registry[w][key] :
           /\ registry[w][key][j] = "throws"
           /\ \A i \in 1..(j - 1) : registry[w][key][i] # "throws"
    ELSE Len(registry[w][key])

Invocations(w, key, value) == [j \in 1..InvokedCount(w, key) |-> <<j, key, value>>]

\* the callbacks invoked by n notify(key, value) calls in a row
RECURSIVE InvokeTimes(_, _, _, _, _)
InvokeTimes(calls, w, key, value, n) ==
  IF n = 0 THEN calls
  ELSE InvokeTimes(calls \o Invocations(w, key, value), w, key, value, n - 1)

\* an error reaches the caller, rejects the running operation or is logged
Raised(w, e) == [errors EXCEPT ![w] = Append(@, e)]

\* an event emitted to every window is dispatched to the windows that listen for it
Msg(type, dest, id, key, value, source, targets, peer) ==
  [type |-> type, dest |-> dest, id |-> id, key |-> key, value |-> value,
   sourceWindow |-> source, targetWindows |-> targets, peer |-> peer]

Alive(w) == winStatus[w] # "closed"

\* ------------------------------------------------------------------ PersistentAdapter
\* ensureStore(): the first caller starts Store.load, the others share its promise
EnsureStoreIgnoresInitPromise(w) == ~adapterStore[w]
EnsureStoreStartsLoad(w) == ~adapterStore[w] /\ ~initPromise[w]

EnsureStore(w) ==
  /\ initPromise' = [initPromise EXCEPT ![w] = @ \/ EnsureStoreStartsLoad(w)]
  /\ storeLoads' = [storeLoads EXCEPT ![w] = IF EnsureStoreStartsLoad(w) THEN @ + 1 ELSE @]
  /\ UNCHANGED adapterStore

\* n calls of save / load / cleanupOrphanedKeys: each starts with await ensureStore()
AdapterCalled(w, n) ==
  /\ adapterCalls' = [adapterCalls EXCEPT ![w] = @ + n]
  /\ EnsureStore(w)

\* Store.load resolves: this.store = s
StoreLoaded(w) ==
  /\ Alive(w)
  /\ initPromise[w] /\ ~adapterStore[w] /\ ~storeFault[w]
  /\ adapterStore' = [adapterStore EXCEPT ![w] = TRUE]
  /\ UNCHANGED <<inputVars, listenerCalls, errors, initPromise, storeLoads, adapterCalls, managerVars, bootVars, diskVars, state,
                 notifyLog, net, sets, saves, reqs, winStatus>>

SaveTask(origin, op, w, key, value) ==
  [origin |-> origin, op |-> op, win |-> w, key |-> key, value |-> value, phase |-> "ensure"]

TaskId(s) == <<s.origin, s.op, s.win, s.key>>

\* store.set(key, value) on the loaded store: the entry is written
SaveWrite(s) ==
  /\ s \in saves /\ s.phase = "ensure"
  /\ Alive(s.win) /\ adapterStore[s.win]
  /\ disk' = [disk EXCEPT ![s.key] = s.value]
  /\ diskWriter' = [diskWriter EXCEPT ![s.key] = TaskId(s)]
  /\ saves' = (saves \ {s}) \cup {[s EXCEPT !.phase = "flush"]}
  /\ UNCHANGED <<inputVars, listenerCalls, errors, managerVars, bootVars, adapterVars, state, notifyLog, net, sets, reqs,
                 winStatus>>

\* the saves of the close flush of w that have not settled yet
FlushPending(w) ==
  {s \in saves : s.origin = "flush" /\ s.win = w /\ s.phase \notin {"done", "failed"}}

\* store.save() resolves, and with it save(); the awaiting caller continues:
\* set() resolves, the close handler resolves once Promise.all has every save
SaveDone(s) ==
  /\ s \in saves /\ s.phase = "flush"
  /\ Alive(s.win)
  /\ saves' = (saves \ {s}) \cup {[s EXCEPT !.phase = "done"]}
  /\ sets' = IF s.origin = "set" THEN [sets EXCEPT ![s.op].pc = "done"] ELSE sets
  /\ winStatus' = IF s.origin = "flush" /\ FlushPending(s.win) = {s}
                       /\ winStatus[s.win] = "closing"
                    THEN [winStatus EXCEPT ![s.win] = "closed"] ELSE winStatus
  /\ net' = IF s.origin = "flush" /\ FlushPending(s.win) = {s} /\ winStatus[s.win] = "closing"
              THEN {m \in net : m.dest # s.win} ELSE net
  /\ UNCHANGED <<inputVars, listenerCalls, errors, managerVars, bootVars, adapterVars, diskVars, state, notifyLog, reqs>>

\* what the set() that awaits a save does when the save rejects: nothing catches
\* it, the promise of set() rejects
PcAfterSaveFailureSwallowed == "done"
PcAfterSaveFailure == "failed"

\* who sees the rejection of a save
SaveFailureError(s) ==
  IF s.origin = "set" THEN "set rejects"
  ELSE IF s.origin = "recv" THEN "update handler rejects" ELSE "close handler rejects"

\* store.set or store.save rejects on the loaded store: save() rejects, and with it
\* the caller that awaits it: set(), the update handler, or Promise.all of the close
\* flush. Promise.all rejects with the first save that rejects, and with it the
\* handler given to onCloseRequested; the host destroys the window only after the
\* handler has resolved, so the window stays open. The other saves go on
SaveRejected(s) ==
  /\ s \in saves /\ s.phase \in {"ensure", "flush"}
  /\ Alive(s.win) /\ adapterStore[s.win]
  /\ saves' = (saves \ {s}) \cup {[s EXCEPT !.phase = "failed"]}
  /\ sets' = IF s.origin = "set" THEN [sets EXCEPT ![s.op].pc = PcAfterSaveFailure] ELSE sets
  /\ errors' = IF s.origin = "flush" /\ winStatus[s.win] # "closing"
                 THEN errors ELSE Raised(s.win, SaveFailureError(s))
  /\ winStatus' = IF s.origin = "flush" /\ winStatus[s.win] = "closing"
                    THEN [winStatus EXCEPT ![s.win] = "open"] ELSE winStatus
  /\ UNCHANGED <<inputVars, listenerCalls, managerVars, bootVars, adapterVars, diskVars,
                 state, notifyLog, net, reqs>>

\* ------------------------------------------------------------------ StoreManager
OptImmediateKeys(options) ==
  IF "immediateKeys" \in DOMAIN options THEN options.immediateKeys ELSE {}

OptOnCloseKeys(options) ==
  IF "onCloseKeys" \in DOMAIN options THEN options.onCloseKeys ELSE {}

\* options?.autoCleanup ?? true
OptAutoCleanup(options) ==
  IF "autoCleanup" \in DOMAIN options THEN options.autoCleanup ELSE TRUE

\* emit(event, payload): one event for every window that listens for it
Dispatch(event, id, key, value, source, targets, peer) ==
  {Msg(event, w, id, key, value, source, targets, peer) :
     w \in {d \in Windows : Alive(d) /\ listeners[d][event].active > 0}}

\* get(key) and getDefaultValue(key)
Get(w, key) == state[w][key]

GetDefaultValueFromState(w, key) == state[w][key]
GetDefaultValue(w, key) == initialState[w][key]

\* this.immediateKeys.has(key) in set()
PersistsOnSetBuggy(w, key) == key \in immediateKeys[w] \cup onCloseKeys[w]
PersistsOnSetNever(w, key) == FALSE
PersistsOnSet(w, key) == key \in immediateKeys[w]

\* this.immediateKeys.has(key) in the update listener
PersistsOnUpdateAlways(w, key) == TRUE
PersistsOnUpdateDeclared(w, key) == key \in immediateKeys[w] \cup onCloseKeys[w]
PersistsOnUpdate(w, key) == key \in immediateKeys[w]

\* a set() that writes and notifies locally only when the caller is a target
SetLocalIfTargeted(w, key, value, targets) ==
  /\ winStatus[w] = "open"
  /\ state' = IF targets.all \/ w \in targets.list
                THEN [state EXCEPT ![w][key] = value] ELSE state
  /\ notifyLog' = IF targets.all \/ w \in targets.list THEN Notify(w, key, value)
                  ELSE notifyLog
  /\ sets' = Append(sets, [win |-> w, key |-> key, value |-> value, targets |-> targets,
                           pc |-> "emit"])
  /\ UNCHANGED <<inputVars, listenerCalls, errors, managerVars, bootVars, adapterVars,
                 diskVars, net, saves, reqs, winStatus>>

\* set(key, value, emitToWindows) of the StoreManager up to its first await: state,
\* notify, emit; a callback that throws rejects set() before the emit
Set(w, key, value, targets) ==
  /\ winStatus[w] = "open"
  /\ state' = [state EXCEPT ![w][key] = value]
  /\ notifyLog' = Notify(w, key, value)
  /\ listenerCalls' = [listenerCalls EXCEPT ![w] = @ \o Invocations(w, key, value)]
  /\ sets' = Append(sets, [win |-> w, key |-> key, value |-> value, targets |-> targets,
                           pc |-> IF NotifyThrows(w, key) THEN "threw" ELSE "emit"])
  /\ errors' = IF NotifyThrows(w, key) THEN Raised(w, "set rejects") ELSE errors
  /\ UNCHANGED <<inputVars, managerVars, bootVars, adapterVars, diskVars, net, saves, reqs, winStatus>>

\* the emit of set() has been dispatched and set() continues: save or return
SetEmitted(i) ==
  /\ i \in DOMAIN sets /\ sets[i].pc = "emit"
  /\ Alive(sets[i].win)
  /\ net' = net \cup Dispatch(UpdateEvent, i, sets[i].key, sets[i].value, sets[i].win,
                              sets[i].targets, "")
  /\ IF PersistsOnSet(sets[i].win, sets[i].key)
       THEN /\ saves' = saves \cup {SaveTask("set", i, sets[i].win, sets[i].key,
                                             sets[i].value)}
            /\ AdapterCalled(sets[i].win, 1)
            /\ sets' = [sets EXCEPT ![i].pc = "save"]
       ELSE /\ sets' = [sets EXCEPT ![i].pc = "done"]
            /\ UNCHANGED <<saves, adapterVars>>
  /\ UNCHANGED <<inputVars, listenerCalls, errors, managerVars, bootVars, diskVars, state, notifyLog, reqs, winStatus>>

\* if (sourceWindow === this.windowLabel) return
IsOwnEventNever(w, m) == FALSE
IsOwnEvent(w, m) == m.sourceWindow = w

\* targetWindows === "all" || targetWindows.includes(this.windowLabel)
IsTargetedAlways(w, m) == TRUE
IsTargeted(w, m) == m.targetWindows.all \/ w \in m.targetWindows.list

\* the events a window emits when it applies the update m or accepts the sync
\* response m: the handlers call no emit
ReEmittedToAll(m) == Dispatch(UpdateEvent, m.id, m.key, m.value, m.dest, TargetsAll, "")
ReEmitted(m) == {}

\* the "store-update" listener of window m.dest handles the event m
DeliverUpdate(m) ==
  /\ m \in net /\ m.type = UpdateEvent
  /\ Alive(m.dest)
  /\ net' = (net \ {m}) \cup
            (IF ~IsOwnEvent(m.dest, m) /\ IsTargeted(m.dest, m) THEN ReEmitted(m) ELSE {})
  /\ IF ~IsOwnEvent(m.dest, m) /\ IsTargeted(m.dest, m)
       THEN /\ state' = [state EXCEPT ![m.dest][m.key] = m.value]
            /\ notifyLog' = [notifyLog EXCEPT ![m.dest] =
                 NotifyTimes(@, m.key, m.value, listeners[m.dest][UpdateEvent].active)]
            /\ listenerCalls' = [listenerCalls EXCEPT ![m.dest] =
                 InvokeTimes(@, m.dest, m.key, m.value, listeners[m.dest][UpdateEvent].active)]
            /\ errors' = IF NotifyThrows(m.dest, m.key)
                           THEN Raised(m.dest, "update handler rejects") ELSE errors
            /\ IF PersistsOnUpdate(m.dest, m.key) /\ ~NotifyThrows(m.dest, m.key)
                 THEN /\ saves' = saves \cup {SaveTask("recv", m.id, m.dest, m.key, m.value)}
                      /\ AdapterCalled(m.dest, 1)
                 ELSE UNCHANGED <<saves, adapterVars>>
       ELSE UNCHANGED <<state, notifyLog, listenerCalls, errors, saves, adapterVars>>
  /\ UNCHANGED <<inputVars, managerVars, bootVars, diskVars, sets, reqs, winStatus>>

\* saveOnCloseKeys(): one save per onClose key, with the value state holds now
FlushTasksOfDefaults(w) ==
  {SaveTask("flush", 0, w, k, initialState[w][k]) : k \in onCloseKeys[w]}
FlushTasks(w) == {SaveTask("flush", 0, w, k, state[w][k]) : k \in onCloseKeys[w]}

\* the host asks the window to close: the onCloseRequested handlers run, and the
\* window is destroyed once they have resolved
CloseRequested(w) ==
  /\ winStatus[w] = "open"
  /\ IF closeHooks[w] > 0 /\ FlushTasks(w) # {}
       THEN /\ saves' = saves \cup FlushTasks(w)
            /\ AdapterCalled(w, Cardinality(FlushTasks(w)))
            /\ winStatus' = [winStatus EXCEPT ![w] = "closing"]
            /\ net' = net
       ELSE /\ winStatus' = [winStatus EXCEPT ![w] = "closed"]
            /\ net' = {m \in net : m.dest # w}
            /\ UNCHANGED <<saves, adapterVars>>
  /\ UNCHANGED <<inputVars, listenerCalls, errors, managerVars, bootVars, diskVars, state, notifyLog, sets, reqs>>

\* ------------------------------------------------------------------ requestSync
\* the value the timeout resolves with: this.state[key]
TimeoutValueDefault(w, key) == initialState[w][key]
TimeoutValue(w, key) == state[w][key]

\* responseKey === key && targetWindow === this.windowLabel
IsWantedResponseAnyKey(r, m) == m.peer = r.win
IsWantedResponse(r, m) == m.key = r.key /\ m.peer = r.win

\* requestSync(key) up to the end of the Promise executor: the timer is set, listen()
\* and emit() are invoked; neither is awaited
NewRequest(w, key) ==
  [win |-> w, key |-> key, timer |-> TRUE, listener |-> "registering",
   cleanupListener |-> FALSE, emitted |-> FALSE, resolved |-> FALSE, result |-> Nil,
   byResponse |-> FALSE, notifies |-> 0]

RequestSync(w, key) ==
  /\ winStatus[w] = "open"
  /\ reqs' = Append(reqs, NewRequest(w, key))
  /\ UNCHANGED <<inputVars, listenerCalls, errors, managerVars, bootVars, adapterVars, diskVars, state, notifyLog, net, sets,
                 saves, winStatus>>

\* the host has registered the "store-sync-response" handler of request i
ResponseListenerRegistered(i) ==
  /\ i \in DOMAIN reqs /\ reqs[i].listener = "registering"
  /\ Alive(reqs[i].win)
  /\ reqs' = [reqs EXCEPT ![i].listener = "active"]
  /\ UNCHANGED <<inputVars, listenerCalls, errors, managerVars, bootVars, adapterVars, diskVars, state, notifyLog, net, sets,
                 saves, winStatus>>

\* the promise of listen() resolves: cleanupListener = unlistenFunction
ResponseListenerResolved(i) ==
  /\ i \in DOMAIN reqs /\ reqs[i].listener = "active" /\ ~reqs[i].cleanupListener
  /\ Alive(reqs[i].win)
  /\ reqs' = [reqs EXCEPT ![i].cleanupListener = TRUE]
  /\ UNCHANGED <<inputVars, listenerCalls, errors, managerVars, bootVars, adapterVars, diskVars, state, notifyLog, net, sets,
                 saves, winStatus>>

\* the emit of "store-sync-request" is dispatched
SyncRequestEmitted(i) ==
  /\ i \in DOMAIN reqs /\ ~reqs[i].emitted
  /\ Alive(reqs[i].win)
  /\ reqs' = [reqs EXCEPT ![i].emitted = TRUE]
  /\ net' = net \cup Dispatch(SyncRequestEvent, i, reqs[i].key, Nil, reqs[i].win,
                              TargetsAll, "")
  /\ UNCHANGED <<inputVars, listenerCalls, errors, managerVars, bootVars, adapterVars, diskVars, state, notifyLog, sets,
                 saves, winStatus>>

\* the windows that have a "store-sync-response" handler registered
ResponseListening(w) == \E i \in DOMAIN reqs : reqs[i].win = w /\ reqs[i].listener = "active"

\* if (requestWindow === this.windowLabel) return
IsOwnRequestNever(w, m) == FALSE
IsOwnRequest(w, m) == m.sourceWindow = w

\* the "store-sync-request" listener of window m.dest handles the request m: it
\* answers with its own state[key]
DeliverSyncRequest(m) ==
  /\ m \in net /\ m.type = SyncRequestEvent
  /\ Alive(m.dest)
  /\ net' = (net \ {m}) \cup
       (IF IsOwnRequest(m.dest, m) THEN {}
        ELSE {Msg(SyncResponseEvent, d, m.id, m.key, state[m.dest][m.key], m.dest,
                  TargetsAll, m.sourceWindow) :
                d \in {x \in Windows : Alive(x) /\ ResponseListening(x)}})
  /\ UNCHANGED <<inputVars, listenerCalls, errors, managerVars, bootVars, adapterVars, diskVars, state, notifyLog, sets,
                 saves, reqs, winStatus>>

\* the requests of window m.dest whose handler runs on m and accepts it
Accepting(m) ==
  {i \in DOMAIN reqs : /\ reqs[i].win = m.dest
                       /\ reqs[i].listener = "active"
                       /\ IsWantedResponse(reqs[i], m)}

\* a handler that accepts: clearTimeout, cleanupListener (when it is set), state,
\* notify, resolve; a callback that throws ends the handler before resolve
AcceptedSettlingAgain(r, value) ==
  [r EXCEPT !.timer = FALSE,
            !.listener = IF r.cleanupListener THEN "removed" ELSE r.listener,
            !.resolved = TRUE, !.byResponse = TRUE, !.result = value,
            !.notifies = r.notifies + 1]
Accepted(r, value) ==
  [r EXCEPT !.timer = FALSE,
            !.listener = IF r.cleanupListener THEN "removed" ELSE r.listener,
            !.resolved = r.resolved \/ ~NotifyThrows(r.win, r.key),
            !.byResponse = IF r.resolved \/ NotifyThrows(r.win, r.key)
                             THEN r.byResponse ELSE TRUE,
            !.result = IF r.resolved \/ NotifyThrows(r.win, r.key) THEN r.result ELSE value,
            !.notifies = r.notifies + 1]

\* the "store-sync-response" handlers of window m.dest handle the response m
DeliverSyncResponse(m) ==
  /\ m \in net /\ m.type = SyncResponseEvent
  /\ Alive(m.dest)
  /\ net' = (net \ {m}) \cup (IF Accepting(m) # {} THEN ReEmitted(m) ELSE {})
  /\ reqs' = [i \in DOMAIN reqs |->
                IF i \in Accepting(m) THEN Accepted(reqs[i], m.value) ELSE reqs[i]]
  /\ state' = IF Accepting(m) # {} THEN [state EXCEPT ![m.dest][m.key] = m.value]
              ELSE state
  /\ notifyLog' = [notifyLog EXCEPT ![m.dest] =
                     NotifyTimes(@, m.key, m.value, Cardinality(Accepting(m)))]
  /\ listenerCalls' = [listenerCalls EXCEPT ![m.dest] =
                         InvokeTimes(@, m.dest, m.key, m.value, Cardinality(Accepting(m)))]
  /\ errors' = IF Accepting(m) # {} /\ NotifyThrows(m.dest, m.key)
                 THEN Raised(m.dest, "response handler rejects") ELSE errors
  /\ UNCHANGED <<inputVars, managerVars, bootVars, adapterVars, diskVars, sets, saves, winStatus>>

\* the 1-second timer of request i fires: cleanupListener (when it is set), resolve
\* with the current value
TimerFired(i) ==
  /\ i \in DOMAIN reqs /\ reqs[i].timer
  /\ Alive(reqs[i].win)
  /\ reqs' = [reqs EXCEPT
       ![i].timer = FALSE,
       ![i].listener = IF reqs[i].cleanupListener THEN "removed" ELSE @,
       ![i].resolved = TRUE,
       ![i].result = IF reqs[i].resolved THEN @
                     ELSE TimeoutValue(reqs[i].win, reqs[i].key)]
  /\ UNCHANGED <<inputVars, listenerCalls, errors, managerVars, bootVars, adapterVars, diskVars, state, notifyLog, net, sets,
                 saves, winStatus>>

\* ------------------------------------------------------------------ defineStore / hydrate
\* getStoreManagerInternal(): if (!windowStoreManager) throw
GetStoreManagerInternalNeverThrows(w) == FALSE
GetStoreManagerInternalThrows(w) == ~windowStoreManager[w]

\* if (windowStoreManager) return
DefineStoreIsNoOpNever(w) == FALSE
DefineStoreIsNoOp(w) == windowStoreManager[w]

\* new Set([...this.immediateKeys, ...this.onCloseKeys])
PersistedKeysImmediateOnly(imm, onc) == imm
PersistedKeysOf(imm, onc) == imm \cup onc

AllPersistedKeys(w) == PersistedKeysOf(immediateKeys[w], onCloseKeys[w])

\* the iteration order of allPersistedKeys: immediate keys first, then onClose keys
KeysInOrder == <<"x", "y">>
OrderedKeys(w) ==
  SelectSeq(KeysInOrder, LAMBDA k : k \in immediateKeys[w]) \o
  SelectSeq(KeysInOrder, LAMBDA k : k \in AllPersistedKeys(w) \ immediateKeys[w])

\* notifyPersistedKeys: one notify per persisted key, with the value of st
RECURSIVE NotifyKeysWithDefault(_, _, _)
NotifyKeysWithDefault(log, st, keys) ==
  IF keys = << >> THEN log
  ELSE NotifyKeysWithDefault(Append(log, <<Head(keys), DefaultValue>>), st, Tail(keys))

RECURSIVE NotifyKeys(_, _, _)
NotifyKeys(log, st, keys) ==
  IF keys = << >> THEN log
  ELSE NotifyKeys(Append(log, <<Head(keys), st[Head(keys)]>>), st, Tail(keys))

\* notifyPersistedKeys throws: a callback of a persisted key throws
HydrateNotifyThrows(w) == \E k \in AllPersistedKeys(w) : NotifyThrows(w, k)

\* the keys notifyPersistedKeys reaches: all of them, or those up to the first that throws
RECURSIVE NotifiedKeys(_, _)
NotifiedKeys(w, keys) ==
  IF keys = << >> THEN << >>
  ELSE IF NotifyThrows(w, Head(keys)) THEN <<Head(keys)>>
  ELSE <<Head(keys)>> \o NotifiedKeys(w, Tail(keys))

RECURSIVE InvokeKeys(_, _, _, _)
InvokeKeys(calls, w, st, keys) ==
  IF keys = << >> THEN calls
  ELSE InvokeKeys(calls \o Invocations(w, Head(keys), st[Head(keys)]), w, st, Tail(keys))

\* persistentAdapter.load(keys): the entries that are neither null nor undefined
LoadedWithNulls(keys) == keys
Loaded(keys) == {k \in keys : disk[k] # Nil}

\* { ...this.state, ...persistedState }
Merged(st, keys) == [k \in Keys |-> IF k \in Loaded(keys) THEN disk[k] ELSE st[k]]

\* the end of hydrate() and listenToIncomingUpdates(): the close handler is set up
\* when there are onClose keys, listen() is invoked for both events and not awaited,
\* and defineStore resolves
FinishDefine(w, onc) ==
  /\ closeHooks' = [closeHooks EXCEPT ![w] = IF onc # {} THEN @ + 1 ELSE @]
  /\ listeners' = [listeners EXCEPT ![w] =
       [e \in DOMAIN @ |-> [pending |-> @[e].pending + 1, active |-> @[e].active]]]
  /\ hydratePc' = [hydratePc EXCEPT ![w] = "ready"]

\* defineStore(initialState, options) up to its first await
DefineStore(w, initial, options) ==
  /\ winStatus[w] = "open"
  /\ defineCalls' = [defineCalls EXCEPT ![w] = @ + 1]
  /\ IF DefineStoreIsNoOp(w)
       THEN UNCHANGED <<managerVars, state, hydratePc, constructions, listeners,
                        closeHooks, adapterVars>>
       ELSE /\ windowStoreManager' = [windowStoreManager EXCEPT ![w] = TRUE]
            /\ constructions' = [constructions EXCEPT ![w] = @ + 1]
            /\ state' = [state EXCEPT ![w] = initial]
            /\ initialState' = [initialState EXCEPT ![w] = initial]
            /\ immediateKeys' = [immediateKeys EXCEPT ![w] = OptImmediateKeys(options)]
            /\ onCloseKeys' = [onCloseKeys EXCEPT ![w] = OptOnCloseKeys(options)]
            /\ autoCleanup' = [autoCleanup EXCEPT ![w] = OptAutoCleanup(options)]
            /\ IF OptAutoCleanup(options)
                 THEN /\ hydratePc' = [hydratePc EXCEPT ![w] = "cleanup"]
                      /\ AdapterCalled(w, 1)
                      /\ UNCHANGED <<listeners, closeHooks>>
                 ELSE IF PersistedKeysOf(OptImmediateKeys(options),
                                         OptOnCloseKeys(options)) # {}
                 THEN /\ hydratePc' = [hydratePc EXCEPT ![w] = "load"]
                      /\ AdapterCalled(w, 1)
                      /\ UNCHANGED <<listeners, closeHooks>>
                 ELSE /\ FinishDefine(w, OptOnCloseKeys(options))
                      /\ UNCHANGED adapterVars
  /\ UNCHANGED <<inputVars, listenerCalls, errors, orphans, diskVars, notifyLog, net, sets, saves, reqs, winStatus>>

\* hydrate() after the cleanup: load when there are persisted keys, else finish
AfterCleanup(w) ==
  IF AllPersistedKeys(w) # {}
    THEN /\ hydratePc' = [hydratePc EXCEPT ![w] = "load"]
         /\ AdapterCalled(w, 1)
         /\ UNCHANGED <<listeners, closeHooks>>
    ELSE /\ FinishDefine(w, onCloseKeys[w])
         /\ UNCHANGED adapterVars

\* cleanupOrphanedKeys(validKeys): the stored keys that are not valid
OrphanedKeys(w) == {k \in StoredKeys : disk[k] # Nil} \ AllPersistedKeys(w)

\* cleanupOrphanedKeys has the store and has listed its keys
CleanupListed(w) ==
  /\ hydratePc[w] = "cleanup" /\ adapterStore[w] /\ Alive(w)
  /\ IF OrphanedKeys(w) # {}
       THEN /\ hydratePc' = [hydratePc EXCEPT ![w] = "delete"]
            /\ orphans' = [orphans EXCEPT ![w] = OrphanedKeys(w)]
            /\ UNCHANGED <<listeners, closeHooks, adapterVars>>
       ELSE /\ AfterCleanup(w)
            /\ UNCHANGED orphans
  /\ UNCHANGED <<inputVars, listenerCalls, errors, managerVars, defineCalls, constructions, diskVars, state, notifyLog, net,
                 sets, saves, reqs, winStatus>>

\* cleanupOrphanedKeys has deleted the orphans; hydrate() continues
CleanupDeleted(w) ==
  /\ hydratePc[w] = "delete" /\ Alive(w)
  /\ disk' = [k \in StoredKeys |-> IF k \in orphans[w] THEN Nil ELSE disk[k]]
  /\ diskWriter' = [k \in StoredKeys |->
                      IF k \in orphans[w] THEN <<"cleanup", 0, w, k>> ELSE diskWriter[k]]
  /\ orphans' = [orphans EXCEPT ![w] = {}]
  /\ AfterCleanup(w)
  /\ UNCHANGED <<inputVars, listenerCalls, errors, managerVars, defineCalls, constructions, state, notifyLog, net, sets,
                 saves, reqs, winStatus>>

\* loadPersistedState has the entries: merge, notifyPersistedKeys, and the rest of
\* defineStore; a callback that throws rejects hydrate() and defineStore with it
LoadPersisted(w) ==
  /\ hydratePc[w] = "load" /\ adapterStore[w] /\ Alive(w)
  /\ state' = [state EXCEPT ![w] = Merged(@, AllPersistedKeys(w))]
  /\ notifyLog' = [notifyLog EXCEPT ![w] =
                     NotifyKeys(@, Merged(state[w], AllPersistedKeys(w)),
                                NotifiedKeys(w, OrderedKeys(w)))]
  /\ listenerCalls' = [listenerCalls EXCEPT ![w] =
                         InvokeKeys(@, w, Merged(state[w], AllPersistedKeys(w)),
                                    NotifiedKeys(w, OrderedKeys(w)))]
  /\ IF HydrateNotifyThrows(w)
       THEN /\ hydratePc' = [hydratePc EXCEPT ![w] = "failed"]
            /\ errors' = Raised(w, "defineStore rejects")
            /\ UNCHANGED <<listeners, closeHooks>>
       ELSE /\ FinishDefine(w, onCloseKeys[w])
            /\ errors' = errors
  /\ UNCHANGED <<inputVars, managerVars, orphans, defineCalls, constructions, adapterVars, diskVars,
                 net, sets, saves, reqs, winStatus>>

\* Store.load rejects, and with it ensureStore() now and later (initPromise keeps the
\* rejected promise). A cleanup that waits for it rejects, which hydrate() catches
\* and logs; the load that follows, or that waits, rejects, and nothing catches it:
\* hydrate() and defineStore reject
StoreLoadRejected(w) ==
  /\ Alive(w) /\ initPromise[w] /\ ~adapterStore[w] /\ storeFault[w]
  /\ hydratePc[w] \in {"cleanup", "load"}
  /\ IF hydratePc[w] = "cleanup" /\ AllPersistedKeys(w) = {}
       THEN /\ FinishDefine(w, onCloseKeys[w])
            /\ errors' = Raised(w, "cleanup failed")
            /\ UNCHANGED adapterVars
       ELSE /\ hydratePc' = [hydratePc EXCEPT ![w] = "failed"]
            /\ errors' = IF hydratePc[w] = "cleanup"
                           THEN [errors EXCEPT ![w] = @ \o <<"cleanup failed", "load failed">>]
                           ELSE Raised(w, "load failed")
            /\ IF hydratePc[w] = "cleanup" THEN AdapterCalled(w, 1) ELSE UNCHANGED adapterVars
            /\ UNCHANGED <<listeners, closeHooks>>
  /\ UNCHANGED <<inputVars, listenerCalls, managerVars, orphans, defineCalls, constructions,
                 diskVars, state, notifyLog, net, sets, saves, reqs, winStatus>>

\* the cleanup rejects on the loaded store, before it has deleted a key: hydrate()
\* catches, logs and continues
CleanupRejected(w) ==
  /\ hydratePc[w] \in {"cleanup", "delete"} /\ adapterStore[w] /\ Alive(w)
  /\ errors' = Raised(w, "cleanup failed")
  /\ orphans' = [orphans EXCEPT ![w] = {}]
  /\ AfterCleanup(w)
  /\ UNCHANGED <<inputVars, listenerCalls, managerVars, defineCalls, constructions, diskVars,
                 state, notifyLog, net, sets, saves, reqs, winStatus>>

\* persistentAdapter.load rejects on the loaded store: loadPersistedState, hydrate()
\* and defineStore reject
LoadRejected(w) ==
  /\ hydratePc[w] = "load" /\ adapterStore[w] /\ Alive(w)
  /\ hydratePc' = [hydratePc EXCEPT ![w] = "failed"]
  /\ errors' = Raised(w, "load failed")
  /\ UNCHANGED <<inputVars, listenerCalls, managerVars, orphans, defineCalls, constructions,
                 listeners, closeHooks, adapterVars, diskVars, state, notifyLog, net, sets,
                 saves, reqs, winStatus>>

\* the host has registered a listener of listenToIncomingUpdates
ListenRegistered(w, e) ==
  /\ Alive(w) /\ listeners[w][e].pending > 0
  /\ listeners' = [listeners EXCEPT ![w][e] =
                     [pending |-> @.pending - 1, active |-> @.active + 1]]
  /\ UNCHANGED <<inputVars, listenerCalls, errors, managerVars, hydratePc, orphans, defineCalls, constructions, closeHooks,
                 adapterVars, diskVars, state, notifyLog, net, sets, saves, reqs, winStatus>>

\* ------------------------------------------------------------------ SchemaStore
\* the values of a schema: a plain value (shorthand), or a config object with a
\* "default" property and an optional "persist"; an absent property is an absent field
ConfShorthand == [typeof |-> "string", value |-> DefaultValue]
ConfShorthandObject == [typeof |-> "object", value |-> DefaultValue]
ConfShorthandNull == [typeof |-> "object", null |-> TRUE, value |-> Nil]
ConfDefaultOnly == [typeof |-> "object", default |-> DefaultValue]
ConfPersistFalse ==
  [typeof |-> "object", default |-> DefaultValue,
   persist |-> [typeof |-> "boolean", value |-> FALSE]]
ConfPersistTrue ==
  [typeof |-> "object", default |-> DefaultValue,
   persist |-> [typeof |-> "boolean", value |-> TRUE]]
ConfPersistEmpty ==
  [typeof |-> "object", default |-> DefaultValue, persist |-> [typeof |-> "object"]]
ConfPersistImmediate ==
  [typeof |-> "object", default |-> DefaultValue,
   persist |-> [typeof |-> "object", saveStrategy |-> "immediate"]]
ConfPersistOnClose ==
  [typeof |-> "object", default |-> DefaultValue,
   persist |-> [typeof |-> "object", saveStrategy |-> "onClose"]]
ConfChoices ==
  {ConfShorthand, ConfShorthandObject, ConfShorthandNull, ConfDefaultOnly, ConfPersistFalse,
   ConfPersistTrue, ConfPersistEmpty, ConfPersistImmediate, ConfPersistOnClose}

\* typeof conf === "object" && conf !== null && "default" in conf
IsConfig(conf) ==
  conf.typeof = "object" /\ "null" \notin DOMAIN conf /\ "default" \in DOMAIN conf

\* if (conf.persist): the property is there and is true or an object
PersistIsSet(conf) ==
  /\ "persist" \in DOMAIN conf
  /\ (conf.persist.typeof = "object" \/ conf.persist.value)

\* conf.persist.saveStrategy || "onClose"
SaveStrategyOrImmediate(persist) ==
  IF "saveStrategy" \in DOMAIN persist THEN persist.saveStrategy ELSE "immediate"
SaveStrategyOf(persist) ==
  IF "saveStrategy" \in DOMAIN persist THEN persist.saveStrategy ELSE "onClose"

\* the array the forEach of createMWStore pushes a key to, if any
Classify(conf) ==
  IF IsConfig(conf) /\ PersistIsSet(conf)
    THEN IF conf.persist.typeof = "object"
           THEN IF SaveStrategyOf(conf.persist) = "immediate" THEN "immediate" ELSE "onClose"
           ELSE "onClose"
    ELSE "memory"

SchemaInitialState(s) == [k \in Keys |-> IF IsConfig(s[k]) THEN s[k].default ELSE s[k].value]

\* a forEach that pushes a persisted key to immediateKeys whatever its strategy
SchemaOptionsOverlapping(s) ==
  [immediateKeys |-> {k \in Keys : Classify(s[k]) # "memory"},
   onCloseKeys |-> {k \in Keys : Classify(s[k]) = "onClose"}]

SchemaOptions(s) ==
  [immediateKeys |-> {k \in Keys : Classify(s[k]) = "immediate"},
   onCloseKeys |-> {k \in Keys : Classify(s[k]) = "onClose"}]

\* the schema of the running windows: B keeps both keys in memory only
ReadySchema(w) ==
  IF w = "B" THEN [k \in Keys |-> ConfShorthand]
  ELSE [k \in Keys |-> IF k = "x" THEN ConfPersistImmediate ELSE ConfPersistOnClose]

\* ------------------------------------------------------------------ exported accessors
\* getStoreManagerInternal() throws: the error reaches the caller (getState,
\* getDefaultState) or rejects the promise of the async accessor, before anything else
Thrown(w, e) ==
  /\ errors' = Raised(w, e)
  /\ UNCHANGED <<managerVars, bootVars, adapterVars, diskVars, state, notifyLog, net, sets,
                 saves, reqs, winStatus, inputVars, listenerCalls>>

GetState(w, key) ==
  IF GetStoreManagerInternalThrows(w) THEN Thrown(w, "getState throws") ELSE UNCHANGED vars

GetDefaultState(w, key) ==
  IF GetStoreManagerInternalThrows(w) THEN Thrown(w, "getDefaultState throws")
  ELSE UNCHANGED vars

RequestStateSync(w, key) ==
  IF GetStoreManagerInternalThrows(w) THEN Thrown(w, "requestStateSync rejects")
  ELSE RequestSync(w, key)

SetState(w, key, value, targets) ==
  IF GetStoreManagerInternalThrows(w) THEN Thrown(w, "setState rejects")
  ELSE Set(w, key, value, targets)

\* getAllStoredKeys(): persistentAdapter.getAllKeys() lists the keys of the store
GetAllStoredKeys(w) ==
  IF GetStoreManagerInternalThrows(w) THEN Thrown(w, "getAllStoredKeys rejects")
  ELSE /\ AdapterCalled(w, 1)
       /\ UNCHANGED <<managerVars, bootVars, diskVars, state, notifyLog, net, sets, saves,
                      reqs, winStatus, inputVars, listenerCalls, errors>>

\* ------------------------------------------------------------------ useStoreState
\* if (sync) { if (windowLabel !== "main") requestStateSync(key) ... }
HookPullsInMain(w, sync) == sync
HookPulls(w, sync) == sync /\ w # "main"

RECURSIVE LastIndexOf(_, _)
LastIndexOf(s, e) ==
  IF s = << >> THEN 0 ELSE IF s[Len(s)] = e THEN Len(s) ELSE LastIndexOf(SubSeq(s, 1, Len(s) - 1), e)

RemoveAt(s, i) == SubSeq(s, 1, i - 1) \o SubSeq(s, i + 1, Len(s))

\* a component that uses useStoreState(key, {sync}) mounts in window w: useState reads
\* getDefaultState(key), which throws before defineStore; the effect adds the
\* callback of the hook to the registry and, with sync, a window other than main calls
\* requestStateSync(key). In main the effect sets a timer that reads getState and
\* getDefaultState and touches the component only
Mount(w, key, sync) ==
  /\ winStatus[w] = "open"
  /\ IF GetStoreManagerInternalThrows(w)
       THEN /\ errors' = Raised(w, "useStoreState throws")
            /\ UNCHANGED <<registry, reqs>>
       ELSE /\ Len(registry[w][key]) < MaxListeners
            /\ registry' = [registry EXCEPT ![w][key] = Append(@, "hook")]
            /\ reqs' = IF HookPulls(w, sync) THEN Append(reqs, NewRequest(w, key)) ELSE reqs
            /\ UNCHANGED errors
  /\ UNCHANGED <<schema, storeFault, unsubscribers, listenerCalls, managerVars, bootVars, adapterVars,
                 diskVars, state, notifyLog, net, sets, saves, winStatus>>

\* the component unmounts: the cleanup of the effect removes the callback of the hook
Unmount(w, key) ==
  /\ winStatus[w] # "closed"
  /\ "hook" \in Range(registry[w][key])
  /\ registry' = [registry EXCEPT ![w][key] = RemoveAt(@, LastIndexOf(@, "hook"))]
  /\ UNCHANGED <<schema, storeFault, unsubscribers, listenerCalls, errors, managerVars, bootVars,
                 adapterVars, diskVars, state, notifyLog, net, sets, saves, reqs, winStatus>>

\* createMWStore(schema).init()
CreateMWStoreInit(w) ==
  DefineStore(w, SchemaInitialState(schema[w]), SchemaOptions(schema[w]))

\* ------------------------------------------------------------------ initial states
\* the shared store as earlier runs may have left it
DiskChoices ==
  {[k \in StoredKeys |-> Nil],
   [k \in StoredKeys |-> "p"],
   [k \in StoredKeys |-> IF k = "x" THEN Nil ELSE "p"]}

\* no window has called defineStore yet
Unstarted ==
  /\ windowStoreManager = [w \in Windows |-> FALSE]
  /\ state = [w \in Windows |-> [k \in Keys |-> Nil]]
  /\ initialState = [w \in Windows |-> [k \in Keys |-> Nil]]
  /\ immediateKeys = [w \in Windows |-> {}]
  /\ onCloseKeys = [w \in Windows |-> {}]
  /\ autoCleanup = [w \in Windows |-> TRUE]
  /\ hydratePc = [w \in Windows |-> "none"]
  /\ orphans = [w \in Windows |-> {}]
  /\ defineCalls = [w \in Windows |-> 0]
  /\ constructions = [w \in Windows |-> 0]
  /\ listeners = [w \in Windows |-> NoListeners]
  /\ closeHooks = [w \in Windows |-> 0]
  /\ notifyLog = [w \in Windows |-> << >>]
  /\ net = {}
  /\ sets = << >>
  /\ saves = {}
  /\ adapterStore = [w \in Windows |-> FALSE]
  /\ initPromise = [w \in Windows |-> FALSE]
  /\ storeLoads = [w \in Windows |-> 0]
  /\ adapterCalls = [w \in Windows |-> 0]
  /\ disk \in DiskChoices
  /\ diskWriter = [k \in StoredKeys |-> NoTask]
  /\ reqs = << >>
  /\ winStatus = [w \in Windows |-> "open"]
  /\ registry = [w \in Windows |-> [k \in Keys |-> << >>]]
  /\ unsubscribers = [w \in Windows |-> << >>]
  /\ listenerCalls = [w \in Windows |-> << >>]
  /\ errors = [w \in Windows |-> << >>]

BootInit ==
  /\ Unstarted
  /\ storeFault = [w \in Windows |-> FALSE]
  /\ schema = [w \in Windows |-> ReadySchema(w)]

\* every window has run createMWStore(...).init() on an empty store
ReadyOptions(w) == IF w = "B" THEN OptionsNoPersistence ELSE OptionsImmediateAndOnClose

ReadyInit ==
  /\ windowStoreManager = [w \in Windows |-> TRUE]
  /\ state = [w \in Windows |-> [k \in Keys |-> DefaultValue]]
  /\ initialState = [w \in Windows |-> [k \in Keys |-> DefaultValue]]
  /\ immediateKeys = [w \in Windows |-> OptImmediateKeys(ReadyOptions(w))]
  /\ onCloseKeys = [w \in Windows |-> OptOnCloseKeys(ReadyOptions(w))]
  /\ autoCleanup = [w \in Windows |-> OptAutoCleanup(ReadyOptions(w))]
  /\ hydratePc = [w \in Windows |-> "ready"]
  /\ orphans = [w \in Windows |-> {}]
  /\ defineCalls = [w \in Windows |-> 1]
  /\ constructions = [w \in Windows |-> 1]
  /\ listeners = [w \in Windows |->
       [e \in {UpdateEvent, SyncRequestEvent} |-> [pending |-> 0, active |-> 1]]]
  /\ closeHooks = [w \in Windows |-> IF OptOnCloseKeys(ReadyOptions(w)) # {} THEN 1 ELSE 0]
  /\ notifyLog = [w \in Windows |-> << >>]
  /\ net = {}
  /\ sets = << >>
  /\ saves = {}
  /\ adapterStore = [w \in Windows |-> TRUE]
  /\ initPromise = [w \in Windows |-> TRUE]
  /\ storeLoads = [w \in Windows |-> 1]
  /\ adapterCalls = [w \in Windows |-> IF w = "B" THEN 1 ELSE 2]
  /\ disk = [k \in StoredKeys |-> Nil]
  /\ diskWriter = [k \in StoredKeys |-> NoTask]
  /\ reqs = << >>
  /\ winStatus = [w \in Windows |-> "open"]
  /\ registry = [w \in Windows |-> [k \in Keys |-> << >>]]
  /\ unsubscribers = [w \in Windows |-> << >>]
  /\ listenerCalls = [w \in Windows |-> << >>]
  /\ errors = [w \in Windows |-> << >>]
  /\ schema = [w \in Windows |-> ReadySchema(w)]
  /\ storeFault = [w \in Windows |-> FALSE]

\* ------------------------------------------------------------------ specifications
\* the i-th set() call of a run, by any window, on a key of keys, to any targets
SetCall(max, keys) ==
  /\ Len(sets) < max /\ Len(sets) < Len(SetValueSeq)
  /\ \E w \in Windows, key \in keys, targets \in TargetChoices :
       /\ ~GetStoreManagerInternalThrows(w)
       /\ Set(w, key, SetValueSeq[Len(sets) + 1], targets)

\* running windows that set and receive updates
Next ==
  \/ SetCall(MaxSets, Keys)
  \/ \E i \in DOMAIN sets : SetEmitted(i)
  \/ \E m \in net : DeliverUpdate(m)
  \/ \E s \in saves : SaveWrite(s)
  \/ \E s \in saves : SaveDone(s)

Spec == ReadyInit /\ [][Next]_vars

\* running windows that set a key no window saves at once, receive updates and pull
PullSetKeys == {"y"}

NextPull ==
  \/ SetCall(MaxPullSets, PullSetKeys)
  \/ \E i \in DOMAIN sets : SetEmitted(i)
  \/ \E m \in net : DeliverUpdate(m)
  \/ \E w \in Windows, key \in Keys :
       Len(reqs) < MaxSyncs /\ ~GetStoreManagerInternalThrows(w) /\ RequestSync(w, key)
  \/ \E i \in DOMAIN reqs : ResponseListenerRegistered(i)
  \/ \E i \in DOMAIN reqs : ResponseListenerResolved(i)
  \/ \E i \in DOMAIN reqs : SyncRequestEmitted(i)
  \/ \E m \in net : DeliverSyncRequest(m)
  \/ \E m \in net : DeliverSyncResponse(m)
  \/ \E i \in DOMAIN reqs : TimerFired(i)

SpecPull == ReadyInit /\ [][NextPull]_vars

\* the timer of setTimeout fires unless clearTimeout cancels it
SpecPullFair == SpecPull /\ \A i \in 1..MaxSyncs : WF_vars(TimerFired(i))

\* every callback the event loop of a window has queued runs, and every event the
\* host has dispatched to a live window is handled
SpecPullLive == SpecPull /\ WF_vars(NextPull)

\* two windows that call defineStore, with any options, on any store
BootWindows == {"main", "A"}

NextBoot ==
  \/ \E w \in BootWindows, initial \in InitialStates, options \in OptionChoices :
       defineCalls[w] < MaxDefines /\ DefineStore(w, initial, options)
  \/ \E w \in BootWindows : StoreLoaded(w)
  \/ \E w \in BootWindows : CleanupListed(w)
  \/ \E w \in BootWindows : CleanupDeleted(w)
  \/ \E w \in BootWindows : LoadPersisted(w)
  \/ \E w \in BootWindows, e \in {UpdateEvent, SyncRequestEvent} : ListenRegistered(w, e)

SpecBoot == BootInit /\ [][NextBoot]_vars

\* two windows of one application from their start to their close
LifeWindows == {"main", "A"}

NextLife ==
  \/ \E w \in LifeWindows :
       defineCalls[w] < 1 /\ DefineStore(w, [k \in Keys |-> DefaultValue], ReadyOptions(w))
  \/ \E w \in LifeWindows : StoreLoaded(w)
  \/ \E w \in LifeWindows : CleanupListed(w)
  \/ \E w \in LifeWindows : CleanupDeleted(w)
  \/ \E w \in LifeWindows : LoadPersisted(w)
  \/ \E w \in LifeWindows, e \in {UpdateEvent, SyncRequestEvent} : ListenRegistered(w, e)
  \/ SetCall(MaxLifeSets, Keys)
  \/ \E i \in DOMAIN sets : SetEmitted(i)
  \/ \E m \in net : DeliverUpdate(m)
  \/ \E s \in saves : SaveWrite(s)
  \/ \E s \in saves : SaveDone(s)
  \/ \E w \in LifeWindows : CloseRequested(w)

SpecLife == BootInit /\ [][NextLife]_vars

\* two windows from their start on: they set, receive updates and pull
SessionWindows == {"main", "A"}

NextSession ==
  \/ \E w \in SessionWindows : defineCalls[w] < 1 /\ CreateMWStoreInit(w)
  \/ \E w \in SessionWindows : StoreLoaded(w)
  \/ \E w \in SessionWindows : CleanupListed(w)
  \/ \E w \in SessionWindows : CleanupDeleted(w)
  \/ \E w \in SessionWindows : LoadPersisted(w)
  \/ \E w \in SessionWindows, e \in {UpdateEvent, SyncRequestEvent} : ListenRegistered(w, e)
  \/ SetCall(MaxPullSets, PullSetKeys)
  \/ \E i \in DOMAIN sets : SetEmitted(i)
  \/ \E m \in net : DeliverUpdate(m)
  \/ \E w \in SessionWindows, key \in PullSetKeys :
       Len(reqs) < MaxSyncs /\ ~GetStoreManagerInternalThrows(w) /\ RequestSync(w, key)
  \/ \E i \in DOMAIN reqs : ResponseListenerRegistered(i)
  \/ \E i \in DOMAIN reqs : ResponseListenerResolved(i)
  \/ \E i \in DOMAIN reqs : SyncRequestEmitted(i)
  \/ \E m \in net : DeliverSyncRequest(m)
  \/ \E m \in net : DeliverSyncResponse(m)
  \/ \E i \in DOMAIN reqs : TimerFired(i)

SpecSession == BootInit /\ [][NextSession]_vars

\* window w has not called defineStore
Uninitialized(w) == defineCalls[w] = 0

\* one window whose code calls the exported accessors before and after defineStore,
\* setting and pulling a key that is not saved at once; no other window runs, so no
\* sync response is ever emitted
AccessWindows == {"main"}

NextAccess ==
  \/ \E w \in AccessWindows : defineCalls[w] < 1 /\ CreateMWStoreInit(w)
  \/ \E w \in AccessWindows : StoreLoaded(w)
  \/ \E w \in AccessWindows : CleanupListed(w)
  \/ \E w \in AccessWindows : CleanupDeleted(w)
  \/ \E w \in AccessWindows : LoadPersisted(w)
  \/ \E w \in AccessWindows, e \in {UpdateEvent, SyncRequestEvent} : ListenRegistered(w, e)
  \/ \E w \in AccessWindows, key \in Keys :
       (Uninitialized(w) => Len(errors[w]) < MaxErrors) /\ GetState(w, key)
  \/ \E w \in AccessWindows, key \in Keys :
       (Uninitialized(w) => Len(errors[w]) < MaxErrors) /\ GetDefaultState(w, key)
  \/ \E w \in AccessWindows, key \in PullSetKeys, targets \in TargetChoices :
       /\ (Uninitialized(w) => Len(errors[w]) < MaxErrors) /\ Len(sets) < MaxLifeSets
       /\ SetState(w, key, SetValueSeq[Len(sets) + 1], targets)
  \/ \E w \in AccessWindows, key \in PullSetKeys :
       /\ (Uninitialized(w) => Len(errors[w]) < MaxErrors) /\ Len(reqs) < MaxSyncs
       /\ RequestStateSync(w, key)
  \/ \E w \in AccessWindows :
       /\ (Uninitialized(w) => Len(errors[w]) < MaxErrors)
       /\ adapterCalls[w] < MaxAdapterCalls
       /\ GetAllStoredKeys(w)
  \/ \E i \in DOMAIN sets : SetEmitted(i)
  \/ \E m \in net : DeliverUpdate(m)
  \/ \E i \in DOMAIN reqs : ResponseListenerRegistered(i)
  \/ \E i \in DOMAIN reqs : ResponseListenerResolved(i)
  \/ \E i \in DOMAIN reqs : SyncRequestEmitted(i)
  \/ \E m \in net : DeliverSyncRequest(m)
  \/ \E i \in DOMAIN reqs : TimerFired(i)

SpecAccess == BootInit /\ [][NextAccess]_vars

\* two windows that call defineStore while the store may fail
FaultWindows == {"main", "A"}

FaultInit ==
  /\ Unstarted
  /\ schema = [w \in Windows |-> ReadySchema(w)]
  /\ storeFault \in [Windows -> BOOLEAN]
  /\ \A w \in Windows \ FaultWindows : ~storeFault[w]

NextFault ==
  \/ \E w \in FaultWindows, options \in OptionChoices :
       defineCalls[w] < 1 /\ DefineStore(w, [k \in Keys |-> DefaultValue], options)
  \/ \E w \in FaultWindows : StoreLoaded(w)
  \/ \E w \in FaultWindows : StoreLoadRejected(w)
  \/ \E w \in FaultWindows : CleanupListed(w)
  \/ \E w \in FaultWindows : CleanupDeleted(w)
  \/ \E w \in FaultWindows : CleanupRejected(w)
  \/ \E w \in FaultWindows : LoadPersisted(w)
  \/ \E w \in FaultWindows : LoadRejected(w)
  \/ \E w \in FaultWindows, e \in {UpdateEvent, SyncRequestEvent} : ListenRegistered(w, e)

SpecFault == FaultInit /\ [][NextFault]_vars

\* running windows that set, receive updates and pull while one of them has
\* subscribed callbacks, some of which throw
NotifyWindows == {"A"}

NextNotify ==
  \/ \E w \in NotifyWindows, key \in PullSetKeys, kind \in {"ok", "throws"} :
       Subscribe(w, key, kind)
  \/ NextPull

SpecNotify == ReadyInit /\ [][NextNotify]_vars

\* two windows from their start on, one of which keeps key x in memory only: they
\* set x and receive updates, and the memory-only window pulls x and flushes on close
MemoryWindows == {"main", "A"}
MemoryOnlyWindows == {"A"}
MemoryOptions(w) ==
  IF w \in MemoryOnlyWindows THEN OptionsOnCloseOnly ELSE OptionsImmediateAndOnClose
MemoryKeys == {"x"}

NextMemory ==
  \/ \E w \in MemoryWindows :
       defineCalls[w] < 1 /\ DefineStore(w, [k \in Keys |-> DefaultValue], MemoryOptions(w))
  \/ \E w \in MemoryWindows : StoreLoaded(w)
  \/ \E w \in MemoryWindows : CleanupListed(w)
  \/ \E w \in MemoryWindows : CleanupDeleted(w)
  \/ \E w \in MemoryWindows : LoadPersisted(w)
  \/ \E w \in MemoryWindows, e \in {UpdateEvent, SyncRequestEvent} : ListenRegistered(w, e)
  \/ SetCall(MaxLifeSets, MemoryKeys)
  \/ \E i \in DOMAIN sets : SetEmitted(i)
  \/ \E m \in net : DeliverUpdate(m)
  \/ \E w \in MemoryOnlyWindows, key \in MemoryKeys :
       Len(reqs) < MaxSyncs /\ ~GetStoreManagerInternalThrows(w) /\ RequestSync(w, key)
  \/ \E i \in DOMAIN reqs : ResponseListenerRegistered(i)
  \/ \E i \in DOMAIN reqs : ResponseListenerResolved(i)
  \/ \E i \in DOMAIN reqs : SyncRequestEmitted(i)
  \/ \E m \in net : DeliverSyncRequest(m)
  \/ \E m \in net : DeliverSyncResponse(m)
  \/ \E i \in DOMAIN reqs : TimerFired(i)
  \/ \E s \in saves : SaveWrite(s)
  \/ \E s \in saves : SaveDone(s)
  \/ \E w \in MemoryOnlyWindows : CloseRequested(w)

SpecMemory == BootInit /\ [][NextMemory]_vars

\* one window that calls createMWStore with any schema and then init()
SchemaWindows == {"main"}

SchemaInit ==
  /\ Unstarted
  /\ storeFault = [w \in Windows |-> FALSE]
  /\ \E s \in [Keys -> ConfChoices] :
       schema = [w \in Windows |-> IF w \in SchemaWindows THEN s ELSE ReadySchema(w)]

NextSchema ==
  \/ \E w \in SchemaWindows : defineCalls[w] < 1 /\ CreateMWStoreInit(w)
  \/ \E w \in SchemaWindows : StoreLoaded(w)
  \/ \E w \in SchemaWindows : CleanupListed(w)
  \/ \E w \in SchemaWindows : CleanupDeleted(w)
  \/ \E w \in SchemaWindows : LoadPersisted(w)
  \/ \E w \in SchemaWindows, e \in {UpdateEvent, SyncRequestEvent} : ListenRegistered(w, e)

SpecSchema == SchemaInit /\ [][NextSchema]_vars

\* running windows whose components mount and unmount useStoreState on a key while a
\* window sets that key; every pull is the pull of a mounted hook
HookWindows == {"main", "A"}

HookPullStep ==
  \/ \E i \in DOMAIN reqs : ResponseListenerRegistered(i)
  \/ \E i \in DOMAIN reqs : ResponseListenerResolved(i)
  \/ \E i \in DOMAIN reqs : SyncRequestEmitted(i)
  \/ \E m \in net : DeliverSyncRequest(m)
  \/ \E m \in net : DeliverSyncResponse(m)
  \/ \E i \in DOMAIN reqs : TimerFired(i)

\* the hooks mounted on key in window w
MountedHooks(w, key) == Cardinality({j \in DOMAIN registry[w][key] : registry[w][key][j] = "hook"})

HookStep ==
  \/ \E w \in HookWindows, key \in PullSetKeys, sync \in BOOLEAN :
       /\ MountedHooks(w, key) < MaxMounts
       /\ HookPulls(w, sync) => Len(reqs) < MaxSyncs
       /\ Mount(w, key, sync)
  \/ \E w \in HookWindows, key \in PullSetKeys : Unmount(w, key)
  \/ HookPullStep

NextHook ==
  \/ SetCall(MaxPullSets, PullSetKeys)
  \/ \E i \in DOMAIN sets : SetEmitted(i)
  \/ \E m \in net : DeliverUpdate(m)
  \/ HookStep

SpecHook == ReadyInit /\ [][NextHook]_vars

\* running windows that set an immediate key while the saves may fail
SaveFaultKeys == {"x"}

NextSaveFault ==
  \/ SetCall(MaxSets, SaveFaultKeys)
  \/ \E i \in DOMAIN sets : SetEmitted(i)
  \/ \E m \in net : DeliverUpdate(m)
  \/ \E s \in saves : SaveWrite(s)
  \/ \E s \in saves : SaveDone(s)
  \/ \E s \in saves : SaveRejected(s)

SpecSaveFault == ReadyInit /\ [][NextSaveFault]_vars

\* running windows of which two pull, each key and more than once, after main has
\* set a key for one of them and the update has been handled: a window receives
\* responses meant for another request
MatchWindows == {"A", "B"}
MatchPulls == {<<"A", "x">>, <<"A", "y">>, <<"B", "y">>}
MatchTargets == {TargetsList({"B"})}

\* every set call has returned and its update events have been handled
SetsSettled ==
  /\ \A i \in DOMAIN sets : sets[i].pc = "done"
  /\ \A m \in net : m.type # UpdateEvent

NextMatch ==
  \/ \E key \in PullSetKeys, targets \in MatchTargets :
       /\ Len(sets) < MaxPullSets /\ ~GetStoreManagerInternalThrows("main")
       /\ Set("main", key, SetValueSeq[Len(sets) + 1], targets)
  \/ \E i \in DOMAIN sets : SetEmitted(i)
  \/ \E m \in net : DeliverUpdate(m)
  \/ \E w \in MatchWindows, key \in Keys :
       /\ <<w, key>> \in MatchPulls /\ (reqs = << >> => w = "A")
       /\ Len(sets) = MaxPullSets /\ SetsSettled
       /\ Len(reqs) < MaxMatchSyncs /\ ~GetStoreManagerInternalThrows(w) /\ RequestSync(w, key)
  \/ \E i \in DOMAIN reqs : ResponseListenerRegistered(i)
  \/ \E i \in DOMAIN reqs : ResponseListenerResolved(i)
  \/ \E i \in DOMAIN reqs : SyncRequestEmitted(i)
  \/ \E m \in net : DeliverSyncRequest(m)
  \/ \E m \in net : DeliverSyncResponse(m)
  \/ \E i \in DOMAIN reqs : TimerFired(i)

SpecMatch == ReadyInit /\ [][NextMatch]_vars

\* one window with two onClose keys from its start to its close, while the saves of
\* the close flush may fail; the window is asked to close once
CloseFaultWindows == {"A"}

NextCloseFault ==
  \/ \E w \in CloseFaultWindows :
       defineCalls[w] < 1
       /\ DefineStore(w, [k \in Keys |-> DefaultValue], OptionsOnCloseBoth)
  \/ \E w \in CloseFaultWindows : StoreLoaded(w)
  \/ \E w \in CloseFaultWindows : CleanupListed(w)
  \/ \E w \in CloseFaultWindows : CleanupDeleted(w)
  \/ \E w \in CloseFaultWindows : LoadPersisted(w)
  \/ \E w \in CloseFaultWindows, e \in {UpdateEvent, SyncRequestEvent} : ListenRegistered(w, e)
  \/ \E w \in CloseFaultWindows, key \in Keys :
       /\ Len(sets) < MaxLifeSets /\ ~GetStoreManagerInternalThrows(w)
       /\ Set(w, key, SetValueSeq[Len(sets) + 1], TargetsAll)
  \/ \E i \in DOMAIN sets : SetEmitted(i)
  \/ \E m \in net : DeliverUpdate(m)
  \/ \E s \in saves : SaveWrite(s)
  \/ \E s \in saves : SaveDone(s)
  \/ \E s \in saves : SaveRejected(s)
  \/ \E w \in CloseFaultWindows :
       (\A s \in saves : ~(s.origin = "flush" /\ s.win = w)) /\ CloseRequested(w)

SpecCloseFault == BootInit /\ [][NextCloseFault]_vars

\* window main starts, with a schema of any classification, next to a running window
\* A: main hydrates, both set, main receives updates, pulls and is asked to close
ClassifyConfs == {ConfShorthand, ConfPersistTrue, ConfPersistImmediate}
ClassifyRunning == {"A"}

ClassifyInit ==
  /\ windowStoreManager = [w \in Windows |-> w \in ClassifyRunning]
  /\ state = [w \in Windows |->
       [k \in Keys |-> IF w \in ClassifyRunning THEN DefaultValue ELSE Nil]]
  /\ initialState = state
  /\ immediateKeys = [w \in Windows |->
       IF w \in ClassifyRunning THEN OptImmediateKeys(ReadyOptions(w)) ELSE {}]
  /\ onCloseKeys = [w \in Windows |->
       IF w \in ClassifyRunning THEN OptOnCloseKeys(ReadyOptions(w)) ELSE {}]
  /\ autoCleanup = [w \in Windows |-> TRUE]
  /\ hydratePc = [w \in Windows |-> IF w \in ClassifyRunning THEN "ready" ELSE "none"]
  /\ orphans = [w \in Windows |-> {}]
  /\ defineCalls = [w \in Windows |-> IF w \in ClassifyRunning THEN 1 ELSE 0]
  /\ constructions = defineCalls
  /\ listeners = [w \in Windows |->
       [e \in {UpdateEvent, SyncRequestEvent} |->
          [pending |-> 0, active |-> IF w \in ClassifyRunning THEN 1 ELSE 0]]]
  /\ closeHooks = [w \in Windows |-> IF w \in ClassifyRunning THEN 1 ELSE 0]
  /\ notifyLog = [w \in Windows |-> << >>]
  /\ net = {}
  /\ sets = << >>
  /\ saves = {}
  /\ adapterStore = [w \in Windows |-> w \in ClassifyRunning]
  /\ initPromise = adapterStore
  /\ storeLoads = [w \in Windows |-> IF w \in ClassifyRunning THEN 1 ELSE 0]
  /\ adapterCalls = [w \in Windows |-> IF w \in ClassifyRunning THEN 2 ELSE 0]
  /\ disk = [k \in StoredKeys |-> Nil]
  /\ diskWriter = [k \in StoredKeys |-> NoTask]
  /\ reqs = << >>
  /\ winStatus = [w \in Windows |-> "open"]
  /\ registry = [w \in Windows |-> [k \in Keys |-> << >>]]
  /\ unsubscribers = [w \in Windows |-> << >>]
  /\ listenerCalls = [w \in Windows |-> << >>]
  /\ errors = [w \in Windows |-> << >>]
  /\ storeFault = [w \in Windows |-> FALSE]
  /\ \E s \in [Keys -> ClassifyConfs] :
       schema = [w \in Windows |-> IF w = "main" THEN s ELSE ReadySchema(w)]

NextClassify ==
  \/ defineCalls["main"] < 1 /\ CreateMWStoreInit("main")
  \/ StoreLoaded("main")
  \/ CleanupListed("main")
  \/ CleanupDeleted("main")
  \/ LoadPersisted("main")
  \/ \E e \in {UpdateEvent, SyncRequestEvent} : ListenRegistered("main", e)
  \/ \E w \in {"main", "A"}, key \in Keys :
       /\ Len(sets) < MaxLifeSets /\ ~GetStoreManagerInternalThrows(w)
       /\ Set(w, key, SetValueSeq[Len(sets) + 1], TargetsAll)
  \/ \E i \in DOMAIN sets : SetEmitted(i)
  \/ \E m \in net : DeliverUpdate(m)
  \/ \E s \in saves : SaveWrite(s)
  \/ \E s \in saves : SaveDone(s)
  \/ \E key \in Keys :
       Len(reqs) < MaxSyncs /\ ~GetStoreManagerInternalThrows("main") /\ RequestSync("main", key)
  \/ \E i \in DOMAIN reqs : ResponseListenerRegistered(i)
  \/ \E i \in DOMAIN reqs : ResponseListenerResolved(i)
  \/ \E i \in DOMAIN reqs : SyncRequestEmitted(i)
  \/ \E m \in net : DeliverSyncRequest(m)
  \/ \E m \in net : DeliverSyncResponse(m)
  \/ \E i \in DOMAIN reqs : TimerFired(i)
  \/ CloseRequested("main")

SpecClassify == ClassifyInit /\ [][NextClassify]_vars

\* a running window whose code adds listeners and calls the unsubscribe functions
\* while it or another window sets a key that is not saved at once
RegistryWindows == {"A"}

NextRegistry ==
  \/ \E w \in RegistryWindows, key \in Keys, cb \in Callbacks : AddListener(w, key, cb)
  \/ \E w \in RegistryWindows, u \in 1..MaxSubscriptions : Unsubscribe(w, u)
  \/ \E w \in RegistryWindows \cup {"main"}, key \in PullSetKeys :
       /\ Len(sets) < MaxLifeSets /\ ~GetStoreManagerInternalThrows(w)
       /\ Set(w, key, SetValueSeq[Len(sets) + 1], TargetsList(RegistryWindows))
  \/ \E i \in DOMAIN sets : SetEmitted(i)
  \/ \E m \in net : DeliverUpdate(m)

SpecRegistry == ReadyInit /\ [][NextRegistry]_vars

\* ------------------------------------------------------------------ claims
\* the update event of set call i for window w is still to be handled
Undelivered(i, w) == \E m \in net : m.type = UpdateEvent /\ m.id = i /\ m.dest = w

\* the set calls of window w
OwnSets(w) == {i \in DOMAIN sets : sets[i].win = w}

\* the set calls of other windows whose update, addressed to w, window w has handled
HandledUpdates(w) ==
  {i \in DOMAIN sets : /\ sets[i].win # w
                       /\ sets[i].pc # "emit"
                       /\ ~Undelivered(i, w)
                       /\ (sets[i].targets.all \/ w \in sets[i].targets.list)}

\* C1: self-echo suppression. A window's listeners are notified once for each of its
\* own set calls and once for each update of another window addressed to it: the
\* echo of its own broadcast, which it receives too, adds no notification and no
\* write, so after the echo state[k] is still the value it set.
C1_SelfEchoSuppressed ==
  \A w \in Windows :
    /\ Len(notifyLog[w]) = Cardinality(OwnSets(w)) + Cardinality(HandledUpdates(w))
    /\ \A i \in OwnSets(w) :
         (Len(sets) = 1 /\ sets[i].pc # "emit" /\ ~Undelivered(i, w)) =>
           /\ state[w][sets[i].key] = sets[i].value
           /\ notifyLog[w] = << <<sets[i].key, sets[i].value>> >>

\* C1 witness: a set with targets "all" whose echo the setting window has handled
C1_Witness ==
  \E i \in DOMAIN sets :
    /\ sets[i].targets.all /\ sets[i].pc = "done"
    /\ \A w \in Windows : ~Undelivered(i, w)
    /\ Len(notifyLog[sets[i].win]) = 1

\* an update event m is handled in this step
Handled(m) == m \in net /\ m \notin net' /\ m.type = UpdateEvent

\* C2: target filtering. The window that handles an update event applies it (state
\* overwritten, listeners notified once) if and only if it is not the sender and
\* the targets are "all" or contain its label; otherwise its state, its
\* notifications and the durable store with its pending saves stay as they are.
C2_TargetFiltering ==
  [][\A m \in net : Handled(m) =>
       IF m.sourceWindow # m.dest /\ (m.targetWindows.all \/ m.dest \in m.targetWindows.list)
         THEN /\ state'[m.dest][m.key] = m.value
              /\ notifyLog'[m.dest] = Append(notifyLog[m.dest], <<m.key, m.value>>)
         ELSE /\ state'[m.dest] = state[m.dest]
              /\ notifyLog'[m.dest] = notifyLog[m.dest]
              /\ disk' = disk /\ saves' = saves /\ adapterCalls' = adapterCalls]_vars

\* C2 witness: a set of main for the list ["A"] that A has applied and B discarded
C2_Witness ==
  \E i \in DOMAIN sets :
    /\ sets[i].win = "main" /\ ~sets[i].targets.all /\ sets[i].targets.list = {"A"}
    /\ sets[i].pc # "emit"
    /\ \A w \in Windows : ~Undelivered(i, w)
    /\ state["A"][sets[i].key] = sets[i].value
    /\ state["B"][sets[i].key] = DefaultValue
    /\ notifyLog["B"] = << >>

\* the set call i resolves in this step
Resolves(i) == i \in DOMAIN sets /\ sets[i].pc # "done" /\ sets'[i].pc = "done"

\* the save that set call i made
OwnSave(i) == {s \in saves' : s.origin = "set" /\ s.op = i}

\* C3 as stated: at the moment set(key, v) resolves for an immediate key, the
\* durable store holds v under that key.
C3_AsStated ==
  [][\A i \in DOMAIN sets :
       (Resolves(i) /\ sets[i].key \in immediateKeys[sets[i].win])
         => disk'[sets[i].key] = sets[i].value]_vars

\* C3 amended: when set(key, v) resolves for an immediate key, its own save of v
\* under that key has been written and has completed, and the durable store holds v
\* unless another save of that key was written after it.
C3_WriteThrough ==
  [][\A i \in DOMAIN sets :
       (Resolves(i) /\ sets[i].key \in immediateKeys[sets[i].win])
         => \E s \in OwnSave(i) :
              /\ s.phase = "done" /\ s.key = sets[i].key /\ s.value = sets[i].value
              /\ s.win = sets[i].win
              /\ diskWriter'[s.key] = TaskId(s) => disk'[s.key] = s.value]_vars

\* C3 witness: a resolved set of an immediate key whose value the store holds
C3_Witness ==
  \E i \in DOMAIN sets :
    /\ sets[i].pc = "done" /\ sets[i].key \in immediateKeys[sets[i].win]
    /\ disk[sets[i].key] = sets[i].value
    /\ diskWriter[sets[i].key] = <<"set", i, sets[i].win, sets[i].key>>

\* C4: deferred save. A save of a key that is onClose for the saving window is a
\* save of its close flush: while the window is open it has made no save of the key
\* and has not written the key's durable entry.
C4_DeferredSave ==
  \A w \in Windows : \A k \in onCloseKeys[w] :
    /\ \A s \in saves : (s.win = w /\ s.key = k) => s.origin = "flush"
    /\ winStatus[w] = "open" =>
         /\ ~\E s \in saves : s.win = w /\ s.key = k
         /\ diskWriter[k][3] # w

\* C4 witness: main has set its onClose key y, A has applied the update, both
\* windows are open and the entry of y has not been written
C4_Witness ==
  \E i \in DOMAIN sets :
    /\ sets[i].win = "main" /\ sets[i].key = "y" /\ sets[i].pc = "done"
    /\ "y" \in onCloseKeys["main"] /\ "y" \in onCloseKeys["A"]
    /\ state["A"]["y"] = sets[i].value
    /\ winStatus["main"] = "open" /\ winStatus["A"] = "open"
    /\ diskWriter["y"] = NoTask

\* window w starts its close flush / is let close after its flush in this step
FlushStarts(w) == winStatus[w] = "open" /\ winStatus'[w] = "closing"
FlushCompletes(w) == winStatus[w] = "closing" /\ winStatus'[w] = "closed"

\* the saves of the close flush of w
FlushSaves(w) == {s \in saves' : s.origin = "flush" /\ s.win = w}

\* C5 as stated: when the close proceeds after the flush, the durable store holds,
\* for every onClose key, the value state had when the flush started.
C5_AsStated ==
  [][\A w \in Windows : FlushCompletes(w) =>
       \A s \in FlushSaves(w) : disk'[s.key] = s.value]_vars

\* C5 amended: a hydrated window with onClose keys has a close interception; its
\* flush saves state[k] for every onClose key k, the close proceeds only when all
\* these saves have completed, and then the durable store holds the saved value of
\* every onClose key that no other save was written to after it.
C5_CloseFlush ==
  /\ [](\A w \in Windows :
          /\ (hydratePc[w] = "ready" /\ onCloseKeys[w] # {}) => closeHooks[w] = 1
          /\ (winStatus[w] = "closed" /\ closeHooks[w] > 0) =>
               \A k \in onCloseKeys[w] :
                 \E s \in saves : s.origin = "flush" /\ s.win = w /\ s.key = k
                                  /\ s.phase = "done")
  /\ [][\A w \in Windows :
          /\ (winStatus[w] = "open" /\ winStatus'[w] # "open" /\ closeHooks[w] > 0) =>
               /\ FlushStarts(w)
               /\ \A k \in onCloseKeys[w] :
                    \E s \in FlushSaves(w) : s.key = k /\ s.value = state[w][k]
          /\ FlushCompletes(w) =>
               \A s \in FlushSaves(w) :
                 /\ s.phase = "done"
                 /\ diskWriter'[s.key] = TaskId(s) => disk'[s.key] = s.value]_vars

\* C5 witness: A has closed after flushing a value it had set, and the store holds it
C5_Witness ==
  /\ winStatus["A"] = "closed" /\ closeHooks["A"] = 1
  /\ state["A"]["y"] \in SetValues
  /\ disk["y"] = state["A"]["y"]
  /\ diskWriter["y"] = <<"flush", 0, "A", "y">>

\* C6 as stated: a requestSync that a response resolved has notified the local
\* listeners of its key exactly once, has resolved with a received value, and
\* while no later set or update has written the key, state holds that value.
C6_PullSyncSuccess ==
  \A i \in DOMAIN reqs :
    reqs[i].byResponse =>
      /\ reqs[i].notifies = 1
      /\ reqs[i].result \in Values
      /\ sets = << >> => state[reqs[i].win][reqs[i].key] = reqs[i].result

\* the timer of request i fires in this step
TimerFires(i) ==
  /\ i \in DOMAIN reqs /\ reqs[i].timer /\ ~reqs'[i].timer
  /\ reqs'[i].notifies = reqs[i].notifies

\* C7: every requestSync resolves; the timer, when it fires, resolves the request
\* with the value state[k] holds at that moment and leaves state as it is.
C7_PullSyncTerminates ==
  /\ \A i \in 1..MaxSyncs :
       [](i \in DOMAIN reqs => <>(i \in DOMAIN reqs /\ reqs[i].resolved))
  /\ [][\A i \in DOMAIN reqs : TimerFires(i) =>
          /\ reqs'[i].resolved /\ ~reqs'[i].byResponse
          /\ reqs'[i].result = state[reqs[i].win][reqs[i].key]
          /\ state' = state /\ notifyLog' = notifyLog]_vars

\* C7 witness: a request that the timer resolved, with a value that is not the
\* default: the value an update wrote while the request was pending
C7_Witness ==
  \E i \in DOMAIN reqs :
    /\ reqs[i].resolved /\ ~reqs[i].byResponse
    /\ reqs[i].result \in SetValues
    /\ reqs[i].result = state[reqs[i].win][reqs[i].key]

\* window w makes a defineStore call in this step
Defines(w) == defineCalls'[w] = defineCalls[w] + 1

\* C8: idempotent construction. A defineStore call in a window that has a
\* StoreManager constructs nothing, starts no hydration, registers no listener or
\* close handler, calls the adapter for nothing and leaves state, defaults and key
\* classification as the first call set them.
C8_IdempotentConstruction ==
  [][\A w \in Windows : (Defines(w) /\ windowStoreManager[w]) =>
       /\ windowStoreManager'[w] /\ constructions'[w] = constructions[w]
       /\ hydratePc'[w] = hydratePc[w]
       /\ listeners'[w] = listeners[w] /\ closeHooks'[w] = closeHooks[w]
       /\ adapterCalls'[w] = adapterCalls[w] /\ storeLoads'[w] = storeLoads[w]
       /\ state'[w] = state[w] /\ initialState'[w] = initialState[w]
       /\ immediateKeys'[w] = immediateKeys[w] /\ onCloseKeys'[w] = onCloseKeys[w]
       /\ autoCleanup'[w] = autoCleanup[w]
       /\ disk' = disk /\ notifyLog' = notifyLog]_vars

\* C8 witness: a second defineStore call was made in a hydrated window that was
\* constructed once
C8_Witness ==
  \E w \in Windows :
    /\ defineCalls[w] = 2 /\ constructions[w] = 1 /\ hydratePc[w] = "ready"
    /\ listeners[w][UpdateEvent].active = 1

\* the keys window w declares persisted
Declared(w) == immediateKeys[w] \cup onCloseKeys[w]

\* C9: orphan cleanup. The cleanup of a hydrating window finds as orphans exactly
\* the stored keys the window does not declare, and deletes exactly them: every
\* other entry, and so every declared one, keeps its value and no entry is created;
\* a window with cleanup disabled deletes nothing.
C9_OrphanCleanup ==
  [][\A w \in Windows :
       /\ (hydratePc[w] = "cleanup" /\ hydratePc'[w] # "cleanup") =>
            /\ autoCleanup[w]
            /\ IF {k \in StoredKeys : disk[k] # Nil} \ Declared(w) = {}
                 THEN hydratePc'[w] # "delete"
                 ELSE /\ hydratePc'[w] = "delete"
                      /\ orphans'[w] = {k \in StoredKeys : disk[k] # Nil} \ Declared(w)
            /\ disk' = disk
       /\ (hydratePc[w] = "delete" /\ hydratePc'[w] # "delete") =>
            /\ \A k \in orphans[w] : disk'[k] = Nil /\ k \notin Declared(w)
            /\ \A k \in StoredKeys \ orphans[w] : disk'[k] = disk[k]
       /\ (hydratePc[w] \notin {"cleanup", "delete"} /\ hydratePc'[w] # hydratePc[w]) =>
            disk' = disk]_vars

\* C9 witness: a cleanup has deleted the orphan "old" and kept the declared "y"
C9_Witness ==
  \E w \in Windows :
    /\ hydratePc[w] = "ready" /\ "y" \in Declared(w)
    /\ disk["old"] = Nil /\ diskWriter["old"] = <<"cleanup", 0, w, "old">>
    /\ disk["y"] = "p"

\* C10 as stated: a window whose store was created with no persisted key and no
\* autoCleanup option has, when its hydration is over, made no call to the adapter
\* and has not loaded the store.
C10_NoOpHydration ==
  \A w \in Windows :
    (hydratePc[w] = "ready" /\ Declared(w) = {} /\ autoCleanup[w]) =>
      adapterCalls[w] = 0 /\ storeLoads[w] = 0

\* C11: default isolation. In every state of a window that has been constructed,
\* getDefaultValue(key) is the value passed at construction, and no step (set,
\* incoming update, pull-sync response, hydration load, timeout) changes it.
C11_DefaultIsolation ==
  /\ [](\A w \in Windows, k \in Keys :
         windowStoreManager[w] => GetDefaultValue(w, k) = SchemaInitialState(schema[w])[k])
  /\ [][\A w \in Windows, k \in Keys :
         windowStoreManager[w] => GetDefaultValue(w, k)' = GetDefaultValue(w, k)]_vars

\* C11 witness: a window whose state a hydration load, a set and a pull-sync response
\* have written holds a value that is not the default, and still has its default
C11_Witness ==
  \E i \in DOMAIN reqs, j \in DOMAIN sets :
    /\ reqs[i].byResponse /\ reqs[i].result = sets[j].value
    /\ hydratePc[reqs[i].win] = "ready" /\ disk[reqs[i].key] = "p"
    /\ Get(reqs[i].win, reqs[i].key) = sets[j].value
    /\ GetDefaultValue(reqs[i].win, reqs[i].key) = DefaultValue

\* C12: uninitialized access. While a window has not called defineStore, the calls
\* of getState, getDefaultState, setState, requestStateSync and getAllStoredKeys
\* have changed no state, started no set or requestSync, sent no event and made no
\* call to the adapter, and a step that raises an error in such a window changes
\* nothing else.
C12_UninitializedAccess ==
  /\ [](\A w \in Windows : Uninitialized(w) =>
          /\ state[w] = [k \in Keys |-> Nil] /\ notifyLog[w] = << >>
          /\ \A i \in DOMAIN sets : sets[i].win # w
          /\ \A i \in DOMAIN reqs : reqs[i].win # w
          /\ \A m \in net : m.sourceWindow # w
          /\ adapterCalls[w] = 0 /\ storeLoads[w] = 0)
  /\ [][\A w \in Windows : (Uninitialized(w) /\ errors'[w] # errors[w]) =>
          /\ Len(errors'[w]) = Len(errors[w]) + 1
          /\ UNCHANGED <<managerVars, bootVars, adapterVars, diskVars, state, notifyLog,
                         net, sets, saves, reqs, winStatus, inputVars, listenerCalls>>]_vars

\* C12 witness: setState and getAllStoredKeys, called before defineStore, have raised
C12_Witness ==
  \E w \in Windows :
    /\ Uninitialized(w)
    /\ errors[w] = <<"setState rejects", "getAllStoredKeys rejects">>

\* hydrate() of window w completes in this step
HydrateCompletes(w) == hydratePc[w] \notin {"ready", "failed"} /\ hydratePc'[w] = "ready"

Quiescent ==
  /\ \A i \in DOMAIN sets : sets[i].targets.all /\ sets[i].pc \notin {"emit", "threw"}
  /\ \A i \in DOMAIN sets, j \in DOMAIN sets : i # j => sets[i].win # sets[j].win
  /\ \A m \in net : m.type # UpdateEvent

\* C14 as stated: with every window running, all sets broadcast to "all" and every
\* broadcast processed, all windows hold the same value for each key, also when two
\* windows have set the same key concurrently.
C14_Convergence ==
  Quiescent => \A w1 \in Windows, w2 \in Windows, k \in Keys : Get(w1, k) = Get(w2, k)

\* the values written to key k of window w by its own sets, by the broadcasts it
\* accepted and by its successful pull-syncs
WrittenValues(w, k) ==
  {sets[i].value : i \in {j \in OwnSets(w) : sets[j].key = k}}
  \cup {sets[i].value : i \in {j \in DOMAIN sets :
           /\ sets[j].win # w /\ sets[j].key = k
           /\ <<k, sets[j].value>> \in Range(notifyLog[w])}}
  \cup {reqs[i].result : i \in {j \in DOMAIN reqs :
           reqs[j].win = w /\ reqs[j].key = k /\ reqs[j].byResponse}}

\* C15 as stated: after hydration, a key that the window has set, received or pulled
\* holds a value written by one of these; a hydration load that ends after the set
\* does not overwrite it.
C15_StateProvenance ==
  \A w \in Windows, k \in Keys :
    (hydratePc[w] = "ready" /\ WrittenValues(w, k) # {}) => Get(w, k) \in WrittenValues(w, k)

\* hydrate() of window w is over: it has resolved or rejected
HydrateOver(w) == hydratePc[w] \in {"ready", "failed"}

\* defineStore of window w has resolved with the listeners of both events and, when
\* there are onClose keys, the close interception registered
Started(w) ==
  /\ hydratePc[w] = "ready"
  /\ \A e \in {UpdateEvent, SyncRequestEvent} :
       listeners[w][e].pending + listeners[w][e].active = 1
  /\ closeHooks[w] = IF onCloseKeys[w] # {} THEN 1 ELSE 0

\* C16 as stated: a window whose orphan cleanup failed has, once its hydration is
\* over, started all the same: defineStore has resolved, and the update listeners
\* and the close interception are registered.
C16_CleanupFailureNotFatal ==
  \A w \in Windows :
    ("cleanup failed" \in Range(errors[w]) /\ HydrateOver(w)) => Started(w)

\* C17 as stated: a window whose load of the persisted keys failed keeps its
\* defaults and has started all the same: defineStore has resolved, and the update
\* and sync-request listeners and the close interception are registered.
C17_LoadFailureNotFatal ==
  \A w \in Windows :
    "load failed" \in Range(errors[w]) =>
      /\ Started(w)
      /\ \A k \in Keys : Get(w, k) = GetDefaultValue(w, k)

\* the callbacks invoked in window w by the step
NewCalls(w) == SubSeq(listenerCalls'[w], Len(listenerCalls[w]) + 1, Len(listenerCalls'[w]))

\* the notifications the step made in window w, and the last of them
NewNotifies(w) == Len(notifyLog'[w]) - Len(notifyLog[w])
LastNotified(w) == notifyLog'[w][Len(notifyLog'[w])]

\* C18 as stated: a step that notifies key k with value v in window w invokes every
\* callback subscribed to k in w with v, one throwing or not, and the operation
\* goes on: a set() reaches its emit, an applied update of an immediate key is
\* saved, and every request that accepted a response is resolved.
C18_ListenerIsolation ==
  [][\A w \in Windows :
       NewNotifies(w) > 0 =>
         /\ Len(NewCalls(w)) = NewNotifies(w) * Len(registry[w][LastNotified(w)[1]])
         /\ \A j \in DOMAIN registry[w][LastNotified(w)[1]] :
              <<j, LastNotified(w)[1], LastNotified(w)[2]>> \in Range(NewCalls(w))
         /\ (Len(sets') > Len(sets)) => sets'[Len(sets')].pc = "emit"
         /\ (net' # net /\ Len(sets') = Len(sets) /\ reqs' = reqs
               /\ PersistsOnUpdate(w, LastNotified(w)[1])) => saves' # saves
         /\ \A i \in DOMAIN reqs :
              (reqs[i].win = w /\ reqs'[i].notifies > reqs[i].notifies) => reqs'[i].resolved
  ]_vars

\* key is in neither immediateKeys nor onCloseKeys of window w
MemoryOnly(w, key) == key \notin immediateKeys[w] \cup onCloseKeys[w]

\* C19: a window never saves a key that is in neither its immediateKeys nor its
\* onCloseKeys: no save of such a key is ever started by the window (by set, an
\* applied update, a sync response, hydration or the close flush), and no step
\* writes an entry of the durable store on behalf of such a save.
C19_MemoryOnlyNeverSaved ==
  /\ [](\A s \in saves : ~MemoryOnly(s.win, s.key))
  /\ [][\A k \in StoredKeys :
         (diskWriter'[k] # diskWriter[k] /\ diskWriter'[k][1] \in {"set", "recv", "flush"})
           => ~MemoryOnly(diskWriter'[k][3], k)]_vars

\* window A, where x is memory-only, has set x and has closed after its flush wrote
\* y; no save has written x
C19_Witness ==
  /\ MemoryOnly("A", "x")
  /\ \E i \in DOMAIN sets : sets[i].win = "A" /\ sets[i].key = "x" /\ sets[i].pc = "done"
  /\ Get("A", "x") # GetDefaultValue("A", "x")
  /\ winStatus["A"] = "closed"
  /\ diskWriter["y"] = <<"flush", 0, "A", "y">>
  /\ diskWriter["x"] = NoTask

\* C20: in a window whose store createMWStore has built, each schema key is in one
\* class: persist {saveStrategy: "immediate"} puts it in immediateKeys only; persist
\* true, persist {} and persist {saveStrategy: "onClose"} put it in onCloseKeys
\* only; a config without persist or with persist false and a shorthand value put it
\* in neither; its default is conf.default for a config and the value for a shorthand.
C20_SchemaClassification ==
  \A w \in Windows : windowStoreManager[w] =>
    \A k \in Keys :
      /\ schema[w][k] = ConfPersistImmediate =>
           k \in immediateKeys[w] /\ k \notin onCloseKeys[w]
      /\ schema[w][k] \in {ConfPersistTrue, ConfPersistEmpty, ConfPersistOnClose} =>
           k \in onCloseKeys[w] /\ k \notin immediateKeys[w]
      /\ schema[w][k] \in {ConfDefaultOnly, ConfPersistFalse, ConfShorthand,
                            ConfShorthandObject, ConfShorthandNull} =>
           k \notin immediateKeys[w] \cup onCloseKeys[w]
      /\ GetDefaultValue(w, k) =
           IF schema[w][k] \in {ConfShorthand, ConfShorthandObject, ConfShorthandNull}
             THEN schema[w][k].value ELSE schema[w][k].default

\* a window built from a schema with persist {} for x and a null shorthand for y has
\* started: x is an onClose key, y is memory-only with default null
C20_Witness ==
  /\ schema["main"]["x"] = ConfPersistEmpty /\ schema["main"]["y"] = ConfShorthandNull
  /\ hydratePc["main"] = "ready"
  /\ onCloseKeys["main"] = {"x"} /\ immediateKeys["main"] = {}
  /\ GetDefaultValue("main", "y") = Nil

\* the update events in flight
UpdatesInFlight == {m \in net : m.type = UpdateEvent}

\* C21 as stated: a step of a hook (mount, unmount, or a step of the pull it began)
\* changes no window's state, emits no update event and starts or writes no save.
C21_AsStated ==
  [][HookStep => /\ state' = state
                 /\ UpdatesInFlight' = UpdatesInFlight
                 /\ saves' = saves /\ disk' = disk]_vars

\* C21 amended: a step of a hook emits no update event and starts or writes no save;
\* it changes state[w][k] only when w, a window other than main whose hook pulled k,
\* handles a sync response for k addressed to it, and then to the value received.
C21_HookFrame ==
  [][HookStep =>
       /\ UpdatesInFlight' = UpdatesInFlight
       /\ saves' = saves /\ disk' = disk
       /\ \A w \in Windows, k \in Keys :
            state'[w][k] # state[w][k] =>
              /\ w # "main"
              /\ \E i \in DOMAIN reqs : reqs[i].win = w /\ reqs[i].key = k
              /\ \E m \in net \ net' :
                   /\ m.type = SyncResponseEvent /\ m.dest = w /\ m.peer = w
                   /\ m.key = k /\ m.value = state'[w][k]]_vars

\* the hook mounted in A with sync has pulled y: the response was accepted and A
\* holds a value that no set of A and no update wrote
C21_Witness ==
  /\ "hook" \in Range(registry["A"]["y"])
  /\ \E i \in DOMAIN reqs : reqs[i].win = "A" /\ reqs[i].key = "y" /\ reqs[i].byResponse
  /\ Get("A", "y") # GetDefaultValue("A", "y")
  /\ \A i \in DOMAIN sets : sets[i].win = "main"
  /\ \E m \in UpdatesInFlight : m.dest = "A"

\* the values the set() calls other than i write to key
OtherSetValues(i, key) == {sets[j].value : j \in {n \in DOMAIN sets : n # i /\ sets[n].key = key}}

\* window d has handled the update event of set i or the event is still in flight
Broadcast(i, d) ==
  \/ \E m \in UpdatesInFlight : m.dest = d /\ m.id = i
  \/ <<sets[i].key, sets[i].value>> \in Range(notifyLog[d])

\* C22: when the save of an immediate key fails inside set(key, v), the promise of
\* set rejects and nothing is rolled back: the window was notified of v and holds v
\* (or what a later write put there), the update event went to every targeted
\* window, and the failing step itself changes no state and retracts no event.
C22_SaveFailureRejectsSet ==
  /\ [](\A s \in saves : (s.origin = "set" /\ s.phase = "failed") =>
           /\ sets[s.op].pc = "failed"
           /\ "set rejects" \in Range(errors[s.win])
           /\ <<s.key, s.value>> \in Range(notifyLog[s.win])
           /\ Get(s.win, s.key) \in {s.value} \cup OtherSetValues(s.op, s.key)
           /\ \A d \in Windows \ {s.win} :
                (sets[s.op].targets.all \/ d \in sets[s.op].targets.list)
                  => Broadcast(s.op, d))
  /\ [][\A i \in DOMAIN sets : (sets[i].pc = "save" /\ sets'[i].pc # "save") =>
          state' = state /\ notifyLog' = notifyLog /\ net' = net]_vars

\* the save of main's set("x", "v1") has failed: set rejected, main holds v1 and A,
\* which handled the update, holds it too
C22_Witness ==
  /\ Len(sets) = 1 /\ sets[1].win = "main" /\ sets[1].pc = "failed"
  /\ errors["main"] = <<"set rejects">>
  /\ Get("main", "x") = "v1" /\ Get("A", "x") = "v1"
  /\ disk["x"] # "v1"

\* the place of the first notification of <<key, value>> in window w, 0 when none
NotifiedAt(w, key, value) ==
  IF <<key, value>> \in Range(notifyLog[w])
    THEN CHOOSE n \in DOMAIN notifyLog[w] :
           /\ notifyLog[w][n] = <<key, value>>
           /\ \A o \in 1..(n - 1) : notifyLog[w][o] # <<key, value>>
    ELSE 0

\* the update events of set i in flight
EnvelopesOf(i) == {m \in UpdatesInFlight : m.id = i}

\* C23: the step that calls set(key, v) overwrites state[key] and notifies the
\* window, and neither dispatches an event nor starts a save; the events of a set
\* are dispatched by a later step, before its save starts, and carry the key, the
\* value and the window of the call; a save of a set exists only once its events
\* are dispatched; and of two set calls of one window on one key, the earlier is
\* notified first and has its emit called first.
C23_SetOrder ==
  /\ [][Len(sets') > Len(sets) =>
          /\ state'[sets'[Len(sets')].win][sets'[Len(sets')].key] = sets'[Len(sets')].value
          /\ notifyLog'[sets'[Len(sets')].win] =
               Append(notifyLog[sets'[Len(sets')].win],
                      <<sets'[Len(sets')].key, sets'[Len(sets')].value>>)
          /\ sets'[Len(sets')].pc = "emit"
          /\ net' = net /\ saves' = saves]_vars
  /\ [][\A i \in DOMAIN sets :
          (EnvelopesOf(i)' \ EnvelopesOf(i) # {}) =>
            /\ sets[i].pc = "emit" /\ sets'[i].pc \in {"save", "done"}
            /\ NotifiedAt(sets[i].win, sets[i].key, sets[i].value) > 0
            /\ \A s \in saves : ~(s.origin = "set" /\ s.op = i)]_vars
  /\ [](\A m \in UpdatesInFlight :
          /\ m.id \in DOMAIN sets
          /\ m.key = sets[m.id].key /\ m.value = sets[m.id].value
          /\ m.sourceWindow = sets[m.id].win /\ m.targetWindows = sets[m.id].targets)
  /\ [](\A s \in saves : s.origin = "set" => sets[s.op].pc \in {"save", "done"})
  /\ [](\A i, j \in DOMAIN sets :
          (i < j /\ sets[i].win = sets[j].win /\ sets[i].key = sets[j].key) =>
            /\ 0 < NotifiedAt(sets[i].win, sets[i].key, sets[i].value)
            /\ NotifiedAt(sets[i].win, sets[i].key, sets[i].value)
                 < NotifiedAt(sets[j].win, sets[j].key, sets[j].value)
            /\ sets[j].pc # "emit" => sets[i].pc \in {"emit", "save", "done"})

\* main has called set("x", "v1") and then set("x", "v2"): both are notified in
\* main, the events of both are dispatched and the save of the second is written
C23_Witness ==
  /\ Len(sets) = 2
  /\ sets[1].win = "main" /\ sets[2].win = "main" /\ sets[1].key = "x" /\ sets[2].key = "x"
  /\ notifyLog["main"] = <<<<"x", "v1">>, <<"x", "v2">>>>
  /\ sets[1].pc = "save" /\ sets[2].pc = "done"
  /\ disk["x"] = "v2"

\* window m.dest applies the update event m: it is not its own and it is targeted
Applies(m) == ~IsOwnEvent(m.dest, m) /\ IsTargeted(m.dest, m)

\* C24: the step in which a window applies an incoming update for key k starts a
\* save of the value received if and only if k is in the immediateKeys of that
\* window, whatever the window that sent it; an update that is not applied starts
\* no save, and every save started by an update is of an immediate key of its window.
C24_ReceiverSidePersistence ==
  /\ [][\A m \in UpdatesInFlight \ UpdatesInFlight' :
          IF Applies(m)
            THEN /\ (SaveTask("recv", m.id, m.dest, m.key, m.value) \in saves' \ saves)
                       <=> (m.key \in immediateKeys[m.dest])
                 /\ m.key \notin immediateKeys[m.dest] => saves' = saves
            ELSE saves' = saves]_vars
  /\ [](\A s \in saves : s.origin = "recv" => s.key \in immediateKeys[s.win])

\* B, which keeps x in memory only, has set x; A, where x is immediate, has applied
\* the update and written the value to the store
C24_Witness ==
  /\ Len(sets) >= 1 /\ sets[1].win = "B" /\ sets[1].key = "x"
  /\ "x" \notin immediateKeys["B"] /\ "x" \in immediateKeys["A"]
  /\ diskWriter["x"] = <<"recv", 1, "A", "x">> /\ disk["x"] = sets[1].value
  /\ Get("A", "x") = sets[1].value

\* the set calls whose emit has been dispatched
Emitted == {i \in DOMAIN sets : sets[i].pc \notin {"emit", "threw"}}

\* C25: the step in which a window handles an update or a sync response puts no
\* update event in flight; every update event in flight is the event of a set call
\* whose emit was dispatched, sent by the window that called it; and once the set and
\* requestSync calls have stopped, every set has emitted once and no event of any
\* kind stays in flight.
C25_NoRebroadcast ==
  /\ [][(\E m \in net \ net' : m.type \in {UpdateEvent, SyncResponseEvent})
          => UpdatesInFlight' \subseteq UpdatesInFlight]_vars
  /\ [](\A m \in UpdatesInFlight : m.id \in Emitted /\ m.sourceWindow = sets[m.id].win)
  /\ <>[](net = {} /\ Emitted = DOMAIN sets)

\* A has applied the update of main's set and has accepted a response to its pull,
\* and nothing is in flight
C25_Witness ==
  /\ Len(sets) = 1 /\ sets[1].win = "main" /\ Emitted = {1}
  /\ <<"y", sets[1].value>> \in Range(notifyLog["A"])
  /\ \E i \in DOMAIN reqs : reqs[i].win = "A" /\ reqs[i].byResponse
  /\ net = {}

\* the events the step puts in flight
NewEvents == net' \ net

\* C26: the request of a requestSync is dispatched to every live window whose
\* sync-request listener is registered; a window that handles the request of another
\* window emits one response, which carries the key, its own state[key] at that
\* moment, its own label as sourceWindow and the requester as targetWindow, and which
\* reaches each window that listens for responses once; a window that handles its
\* own request emits nothing; and handling a request changes no state.
C26_SyncResponders ==
  /\ [][\A i \in DOMAIN reqs : (~reqs[i].emitted /\ reqs'[i].emitted) =>
          \A d \in Windows :
            (Alive(d) /\ listeners[d][SyncRequestEvent].active > 0) =>
              \E m \in NewEvents :
                /\ m.type = SyncRequestEvent /\ m.dest = d /\ m.id = i
                /\ m.key = reqs[i].key /\ m.sourceWindow = reqs[i].win]_vars
  /\ [][\A m \in net \ net' : m.type = SyncRequestEvent =>
          /\ state' = state /\ notifyLog' = notifyLog /\ saves' = saves
          /\ m.dest = m.sourceWindow => NewEvents = {}
          /\ m.dest # m.sourceWindow =>
               /\ \A r \in NewEvents :
                    /\ r.type = SyncResponseEvent /\ r.key = m.key
                    /\ r.value = state[m.dest][m.key]
                    /\ r.sourceWindow = m.dest /\ r.peer = m.sourceWindow
               /\ \A d \in Windows :
                    (Alive(d) /\ ResponseListening(d)) =>
                      Cardinality({r \in NewEvents : r.dest = d}) = 1]_vars

\* main, which has set y, has answered the request of A: its response is in flight
\* to A with the value main holds, while A still holds its own
C26_Witness ==
  \E r \in net :
    /\ r.type = SyncResponseEvent /\ r.dest = "A" /\ r.peer = "A"
    /\ r.sourceWindow = "main" /\ r.key = "y"
    /\ r.value = Get("main", "y") /\ r.value # Get("A", "y")
    /\ \E i \in DOMAIN sets : sets[i].win = "main" /\ sets[i].value = r.value

\* the response m is for request r: same key, and addressed to the window of r
Matches(r, m) == m.key = r.key /\ m.peer = r.win

\* C27: when window W handles a sync response, a request of W that the response
\* does not match (another key, or another target window) stays as it was, timer
\* and listener included, and state[k] of its key k is changed only by a response
\* for k addressed to W; a response that matches no request of W changes no state,
\* notifies nobody and leaves every request as it was; and state changes only
\* where a listening request of W matches.
C27_ResponseMatching ==
  [][\A m \in net \ net' : m.type = SyncResponseEvent =>
       /\ \A i \in DOMAIN reqs :
            (reqs[i].win = m.dest /\ ~Matches(reqs[i], m)) =>
              /\ reqs'[i] = reqs[i]
              /\ (m.key # reqs[i].key \/ m.peer # m.dest) =>
                   state'[m.dest][reqs[i].key] = state[m.dest][reqs[i].key]
       /\ (\A i \in DOMAIN reqs : reqs[i].win = m.dest => ~Matches(reqs[i], m)) =>
            state' = state /\ notifyLog' = notifyLog /\ reqs' = reqs
       /\ (state' # state \/ notifyLog' # notifyLog) =>
            \E i \in DOMAIN reqs :
              /\ reqs[i].win = m.dest /\ reqs[i].listener = "active"
              /\ Matches(reqs[i], m)
              /\ state' = [state EXCEPT ![m.dest][m.key] = m.value]]_vars

\* A pulls x and y and has handled main's response for y, which carries the value
\* main set: y is synchronised, and the request for x is still pending with its timer
C27_Witness ==
  /\ Len(reqs) = 2 /\ reqs[1].win = "A" /\ reqs[2].win = "A"
  /\ reqs[1].key = "x" /\ reqs[2].key = "y"
  /\ reqs[2].byResponse /\ reqs[2].result # DefaultValue /\ Get("A", "y") = reqs[2].result
  /\ reqs[1].listener = "active" /\ reqs[1].timer /\ ~reqs[1].resolved
  /\ Get("A", "x") = DefaultValue

\* the requests of window m.dest that the response m matches
MatchedBy(m) == {i \in DOMAIN reqs : reqs[i].win = m.dest /\ Matches(reqs[i], m)}

\* C28 as stated: a response that reaches the requester after each request it
\* matches has already applied a response changes no state and notifies nobody.
C28_FirstResponseWins ==
  [][\A m \in net \ net' :
       (/\ m.type = SyncResponseEvent
        /\ MatchedBy(m) # {}
        /\ \A i \in MatchedBy(m) : reqs[i].notifies > 0)
         => state' = state /\ notifyLog' = notifyLog]_vars

\* request i has resolved by its timeout
TimedOut(i) == reqs[i].resolved /\ ~reqs[i].byResponse /\ ~reqs[i].timer

\* C29 as stated: a request that has resolved by timeout has no response listener
\* registered or still to be registered, and a response that reaches the window
\* after each request it matches has timed out changes no state and notifies nobody.
C29_TimeoutCleanup ==
  /\ [](\A i \in DOMAIN reqs : TimedOut(i) => reqs[i].listener = "removed")
  /\ [][\A m \in net \ net' :
          (/\ m.type = SyncResponseEvent
           /\ MatchedBy(m) # {}
           /\ \A i \in MatchedBy(m) : TimedOut(i))
            => state' = state /\ notifyLog' = notifyLog]_vars

\* C30: the promise of a requestSync call settles once: a resolved request keeps
\* its value for ever; the step that resolves it is either the handling of a
\* matching response, which cancels the timer and resolves with the value received,
\* or the firing of the timer, which resolves with the local value; and a request
\* that has accepted a response or has resolved has no timer left to fire.
C30_SingleResolution ==
  /\ [][\A i \in DOMAIN reqs :
          /\ reqs[i].resolved =>
               /\ reqs'[i].resolved /\ reqs'[i].result = reqs[i].result
               /\ reqs'[i].byResponse = reqs[i].byResponse
               /\ ~reqs'[i].timer
          /\ (~reqs[i].resolved /\ reqs'[i].resolved) =>
               \/ /\ reqs'[i].byResponse /\ ~reqs'[i].timer
                  /\ \E m \in net \ net' :
                       /\ m.type = SyncResponseEvent /\ Matches(reqs[i], m)
                       /\ m.dest = reqs[i].win /\ reqs'[i].result = m.value
               \/ /\ ~reqs'[i].byResponse /\ reqs[i].timer /\ ~reqs'[i].timer
                  /\ net' = net
                  /\ reqs'[i].result = state[reqs[i].win][reqs[i].key]]_vars
  /\ [](\A i \in DOMAIN reqs : (reqs[i].notifies > 0 \/ reqs[i].resolved) => ~reqs[i].timer)

\* the request of A for y resolved by timeout with A's local value; a response that
\* came later was applied to the state, and the resolved value is still the local one
C30_Witness ==
  \E i \in DOMAIN reqs :
    /\ reqs[i].win = "A" /\ reqs[i].key = "y" /\ TimedOut(i)
    /\ reqs[i].notifies > 0
    /\ reqs[i].result = DefaultValue /\ Get("A", "y") # DefaultValue

\* C31: close-flush failure does not block shutdown: when the save of an onClose key
\* fails during the close flush, the saves of the other onClose keys are still
\* attempted, and once every save of the flush has settled the window has closed.
C31_CloseFlushFailureStillCloses ==
  \A w \in Windows :
    (/\ \E s \in saves : s.origin = "flush" /\ s.win = w /\ s.phase = "failed"
     /\ FlushPending(w) = {})
    => /\ winStatus[w] = "closed"
       /\ \A k \in onCloseKeys[w] : \E s \in saves : s.origin = "flush" /\ s.win = w /\ s.key = k

\* C32: classification is disjoint and fixed: in every reachable state the
\* immediateKeys and onCloseKeys of a window are disjoint and are the sets computed
\* from its schema at construction, and no step of a constructed window (set,
\* incoming update, pull-sync, hydration, close flush) adds a key to or removes a key
\* from either set.
C32_ClassificationFixed ==
  /\ [](\A w \in Windows :
          /\ immediateKeys[w] \cap onCloseKeys[w] = {}
          /\ windowStoreManager[w] =>
               /\ immediateKeys[w] = {k \in Keys : Classify(schema[w][k]) = "immediate"}
               /\ onCloseKeys[w] = {k \in Keys : Classify(schema[w][k]) = "onClose"})
  /\ [][\A w \in Windows :
          windowStoreManager[w] =>
            /\ immediateKeys'[w] = immediateKeys[w]
            /\ onCloseKeys'[w] = onCloseKeys[w]]_vars

\* C32 witness: main, constructed with an immediate and an onClose key, has hydrated,
\* holds a value set by A, has a pull resolved by a response and has closed after
\* its flush
C32_Witness ==
  /\ winStatus["main"] = "closed"
  /\ immediateKeys["main"] = {"x"} /\ onCloseKeys["main"] = {"y"}
  /\ \E i \in DOMAIN sets : sets[i].win = "A" /\ state["main"][sets[i].key] = sets[i].value
  /\ \E i \in DOMAIN reqs : reqs[i].win = "main" /\ reqs[i].byResponse
  /\ \E s \in saves : s.origin = "flush" /\ s.win = "main" /\ s.phase = "done"

\* C33: single initialization of the durable store: whatever the interleaving of the
\* first adapter calls of a window, Store.load is called at most once, exactly when
\* the first call arrives, and every call, also one that arrives while the load is
\* still in flight, waits for and works on the store of that one load.
C33_SingleStoreInitialization ==
  /\ [](\A w \in Windows :
          /\ storeLoads[w] <= 1
          /\ (adapterCalls[w] > 0) = (storeLoads[w] = 1)
          /\ initPromise[w] = (storeLoads[w] = 1)
          /\ adapterStore[w] => initPromise[w]
          /\ \A s \in saves : s.win = w /\ s.phase # "ensure" => adapterStore[w])
  /\ [][\A w \in Windows :
          /\ storeLoads'[w] # storeLoads[w] => adapterCalls[w] = 0 /\ ~adapterStore[w]
          /\ adapterStore[w] => adapterStore'[w]]_vars

\* C33 witness: a save and the cleanup of hydration both wait for the store of one
\* load that is still in flight
C33_Witness ==
  \E w \in Windows :
    /\ hydratePc[w] = "cleanup" /\ ~adapterStore[w]
    /\ adapterCalls[w] >= 2 /\ storeLoads[w] = 1
    /\ \E s \in saves : s.win = w /\ s.phase = "ensure"

\* C34: the update listener runs alongside hydration: a window has at most one
\* update listener, and it is active from the start of hydration, so the update of a
\* set call that is broadcast while a targeted window is hydrating is dispatched to
\* that window.
C34_ListenerAlongsideHydration ==
  /\ [](\A w \in Windows :
          listeners[w][UpdateEvent].pending + listeners[w][UpdateEvent].active <= 1)
  /\ [][\A i \in DOMAIN sets :
          (sets[i].pc = "emit" /\ sets'[i].pc # "emit") =>
            \A w \in Windows \ {sets[i].win} :
              (/\ hydratePc[w] \in {"cleanup", "delete", "load"} /\ Alive(w)
               /\ (sets[i].targets.all \/ w \in sets[i].targets.list))
              => \E m \in net' : m.type = UpdateEvent /\ m.id = i /\ m.dest = w]_vars

\* C35: the change notification registry: notify(key, v) calls every callback
\* registered for key at that moment exactly once with v, in registration order, and
\* no callback that is registered for another key only; a call of an unsubscribe
\* function removes its callback from its key and nothing else, so that later
\* notifications do not call it, and a further call that finds the callback gone
\* changes nothing and raises nothing.
C35_NotifyRegistry ==
  /\ [](\A w \in Windows, k \in Keys :
          /\ Cardinality(Range(registry[w][k])) = Len(registry[w][k])
          /\ \A c \in Range(registry[w][k]) :
               \E u \in DOMAIN unsubscribers[w] :
                 unsubscribers[w][u].key = k /\ unsubscribers[w][u].callback = c)
  /\ [][\A w \in Windows :
          /\ NewNotifies(w) = 0 => NewCalls(w) = << >>
          /\ NewNotifies(w) > 0 =>
               /\ NewNotifies(w) = 1
               /\ Len(NewCalls(w)) = Len(registry[w][LastNotified(w)[1]])
               /\ \A j \in DOMAIN NewCalls(w) :
                    NewCalls(w)[j] = <<j, LastNotified(w)[1], LastNotified(w)[2]>>
               /\ registry'[w] = registry[w]
          /\ \A k \in Keys :
               SelectSeq(registry[w][k], LAMBDA c : c \in Range(registry'[w][k]))
                 = SubSeq(registry'[w][k], 1,
                          Cardinality(Range(registry[w][k]) \cap Range(registry'[w][k])))
          /\ \A u \in DOMAIN unsubscribers[w] :
               unsubscribers'[w][u].calls # unsubscribers[w][u].calls =>
                 /\ unsubscribers[w][u].callback
                      \notin Range(registry'[w][unsubscribers[w][u].key])
                 /\ \A k \in Keys :
                      Range(registry'[w][k]) =
                        Range(registry[w][k]) \
                          (IF k = unsubscribers[w][u].key
                             THEN {unsubscribers[w][u].callback} ELSE {})
                 /\ UNCHANGED <<state, notifyLog, listenerCalls, errors, net, sets, saves>>
          /\ Len(unsubscribers'[w]) > Len(unsubscribers[w]) =>
               /\ unsubscribers'[w][Len(unsubscribers'[w])].callback
                    \in Range(registry'[w][unsubscribers'[w][Len(unsubscribers'[w])].key])
               /\ \A k \in Keys : Range(registry[w][k]) \subseteq Range(registry'[w][k])]_vars

\* C35 witness: two callbacks of key y were called once each, in the order they were
\* added, while a callback was registered for x only; the unsubscribe function of the
\* first of them has since been called twice
C35_Witness ==
  /\ registry["A"]["x"] # << >> /\ registry["A"]["y"] = <<"g">>
  /\ unsubscribers["A"][1] = [key |-> "y", callback |-> "f", calls |-> 2]
  /\ \E v \in SetValues : listenerCalls["A"] = <<<<1, "y", v>>, <<2, "y", v>>>>

\* the load step of hydrate() of window w ends in this step
LoadStepEnds(w) == hydratePc[w] = "load" /\ hydratePc'[w] = "ready"

\* the notifications the step adds in window w
NewNotifications(w) == SubSeq(notifyLog'[w], Len(notifyLog[w]) + 1, Len(notifyLog'[w]))

\* C36 as stated: at the end of the load step every declared persisted key gets
\* exactly one notification, which carries the loaded value, or the default when
\* nothing was stored; the other keys get none.
C36_AsStated ==
  [][\A w \in Windows : LoadStepEnds(w) =>
       /\ \A k \in Keys :
            Cardinality({j \in DOMAIN NewNotifications(w) : NewNotifications(w)[j][1] = k})
              = IF k \in Declared(w) THEN 1 ELSE 0
       /\ \A j \in DOMAIN NewNotifications(w) :
            NewNotifications(w)[j][2] =
              IF disk[NewNotifications(w)[j][1]] # Nil THEN disk[NewNotifications(w)[j][1]]
              ELSE GetDefaultValue(w, NewNotifications(w)[j][1])]_vars

\* C36 amended: at the end of the load step every declared persisted key k gets
\* exactly one notification, which carries state[k] as it is after the merge: the
\* loaded value or, when nothing was stored, the value state[k] held before the
\* load, which is the default unless a set of the window or a sync response it
\* accepted wrote k while it hydrated; the other keys get none, and no other step of
\* the hydration notifies.
C36_HydrationNotification ==
  [][\A w \in Windows :
       /\ LoadStepEnds(w) =>
            /\ \A k \in Keys :
                 Cardinality({j \in DOMAIN NewNotifications(w) :
                                NewNotifications(w)[j][1] = k})
                   = IF k \in Declared(w) THEN 1 ELSE 0
            /\ \A j \in DOMAIN NewNotifications(w) :
                 /\ NewNotifications(w)[j][2] = state'[w][NewNotifications(w)[j][1]]
                 /\ NewNotifications(w)[j][2] =
                      IF disk[NewNotifications(w)[j][1]] # Nil
                        THEN disk[NewNotifications(w)[j][1]]
                        ELSE state[w][NewNotifications(w)[j][1]]
                 /\ (/\ \A i \in OwnSets(w) : sets[i].key # NewNotifications(w)[j][1]
                     /\ \A i \in DOMAIN reqs :
                          ~(/\ reqs[i].win = w /\ reqs[i].notifies > 0
                            /\ reqs[i].key = NewNotifications(w)[j][1])) =>
                      state[w][NewNotifications(w)[j][1]]
                        = GetDefaultValue(w, NewNotifications(w)[j][1])
       /\ (hydratePc'[w] # hydratePc[w] /\ ~LoadStepEnds(w)) => NewNotifications(w) = << >>
  ]_vars

\* C36 witness: main, with an immediate key that was stored and an onClose key that
\* was not, has hydrated and was notified of the stored value and of the default
C36_Witness ==
  /\ hydratePc["main"] = "ready"
  /\ immediateKeys["main"] = {"x"} /\ onCloseKeys["main"] = {"y"}
  /\ \E v \in SetValues : notifyLog["main"] = <<<<"x", v>>, <<"y", DefaultValue>>>>
  /\ \A i \in DOMAIN sets : sets[i].win = "A"

\* C37: targets restrict only remote application: a set call, whatever its targets
\* and also when its target list does not contain the caller, overwrites the caller's
\* state[key], notifies the caller once, goes on to its emit and, for an immediate
\* key of the caller, starts the save of the value and returns only when that save
\* has completed.
C37_TargetsRestrictOnlyRemote ==
  /\ [][/\ Len(sets') > Len(sets) =>
            /\ state'[sets'[Len(sets')].win][sets'[Len(sets')].key] = sets'[Len(sets')].value
            /\ notifyLog'[sets'[Len(sets')].win] =
                 Append(notifyLog[sets'[Len(sets')].win],
                        <<sets'[Len(sets')].key, sets'[Len(sets')].value>>)
            /\ sets'[Len(sets')].pc = "emit"
        /\ \A i \in DOMAIN sets :
             (sets[i].pc = "emit" /\ sets'[i].pc # "emit") =>
               IF sets[i].key \in immediateKeys[sets[i].win]
                 THEN /\ sets'[i].pc = "save"
                      /\ saves' = saves \cup {SaveTask("set", i, sets[i].win, sets[i].key,
                                                       sets[i].value)}
                 ELSE sets'[i].pc = "done" /\ saves' = saves]_vars
  /\ [](\A i \in DOMAIN sets :
          (sets[i].pc = "done" /\ sets[i].key \in immediateKeys[sets[i].win]) =>
            \E s \in saves : /\ TaskId(s) = <<"set", i, sets[i].win, sets[i].key>>
                             /\ s.value = sets[i].value /\ s.phase = "done")

\* C37 witness: main has set the immediate key x for window A only; the call has
\* returned, main holds the value and was notified of it, and the store holds it
C37_Witness ==
  \E i \in DOMAIN sets :
    /\ sets[i].win = "main" /\ sets[i].key = "x" /\ sets[i].pc = "done"
    /\ sets[i].targets = TargetsList({"A"})
    /\ state["main"]["x"] = sets[i].value
    /\ <<"x", sets[i].value>> \in Range(notifyLog["main"])
    /\ disk["x"] = sets[i].value /\ diskWriter["x"] = <<"set", i, "main", "x">>

\* C38: write-through consistency under interleaving: in every quiescent state (no
\* set call, update handler or save in progress, no event in flight), for each key
\* that is an immediate key of the window whose save wrote the entry last, the
\* durable value equals state[k] of that window.
C38_WriteThroughConsistency ==
  (/\ \A i \in DOMAIN sets : sets[i].pc = "done"
   /\ \A s \in saves : s.phase = "done"
   /\ net = {})
  => \A k \in Keys :
       (diskWriter[k] # NoTask /\ k \in immediateKeys[diskWriter[k][3]])
       => disk[k] = state[diskWriter[k][3]][k]

\* C39: a resolved defineStore means a ready store: whenever a defineStore call of a
\* window resolves (a later call, which returns at once, or the first call, when it
\* finishes), the hydration of the window has completed and its listen() calls for
\* the update and the sync-request events have been made.
C39_ResolvedMeansReady ==
  [][\A w \in Windows :
       (\/ defineCalls'[w] > defineCalls[w] /\ DefineStoreIsNoOp(w)
        \/ hydratePc[w] \notin {"ready", "failed"} /\ hydratePc'[w] = "ready")
       => /\ hydratePc'[w] = "ready"
          /\ \A e \in {UpdateEvent, SyncRequestEvent} :
               listeners'[w][e].pending + listeners'[w][e].active >= 1]_vars

\* C40: no lost response: the sync-request of a requestSync call is emitted only
\* after the response listener of the call is registered, so the response of a
\* listening window that handles the request before the timeout is dispatched to the
\* requester.
C40_NoLostResponse ==
  [][/\ \A i \in DOMAIN reqs :
          (~reqs[i].emitted /\ reqs'[i].emitted) => reqs[i].listener # "registering"
     /\ \A m \in net \ net' :
          (/\ m.type = SyncRequestEvent /\ m.dest # m.sourceWindow
           /\ reqs[m.id].timer /\ ~reqs[m.id].resolved)
          => \E r \in net' : /\ r.type = SyncResponseEvent /\ r.id = m.id
                              /\ r.dest = m.sourceWindow /\ r.sourceWindow = m.dest]_vars
====
